---- MODULE Spec2Model ----
(***************************************************************************)
(* The thread execution-control core of source/Target/Thread.cpp: the      *)
(* plan stack with its completed and discarded histories, the pre-resume   *)
(* protocol, the ShouldStop decision procedure and the stop-info cache.    *)
(*                                                                         *)
(* Plans are objects behind shared pointers; the model names each by an    *)
(* id and keeps the flags the Thread reads from it (IsMasterPlan,          *)
(* OkayToDiscard, GetPrivate, GetKind) in `plans`.  The plan classes and   *)
(* StopInfo are collaborators: every virtual call the Thread makes on      *)
(* them whose answer it uses is an input, drawn when the call is made and  *)
(* recorded, with the answer, in call.trace.  Hooks (DidPush, WillPop,     *)
(* WillStop, DoTraceLog, WillResume) are recorded too, with whether the    *)
(* plan was the top of the active stack when the hook ran.                 *)
(*                                                                         *)
(* The ShouldStopHere policy of a stepping plan                            *)
(* (source/Target/ThreadPlanShouldStopHere.cpp) is modelled beside it.     *)
(*                                                                         *)
(* Not modelled: the Thread's logging, the tracer pointer PushPlan copies  *)
(* down, and the stack-frame list (CalculateCurrentInlinedDepth).          *)
(***************************************************************************)
EXTENDS Integers, Sequences, FiniteSets, TLC

VARIABLES
    m_plan_stack,                  \* active plan stack, base plan first
    m_completed_plan_stack,        \* plans popped since the last resume
    m_discarded_plan_stack,        \* plans discarded since the last resume
    plans,                         \* plan id -> flags of the plan object
    m_resume_state,
    m_temporary_resume_state,
    m_actual_stop_info_sp,         \* cached StopInfo
    m_thread_stop_reason_stop_id,  \* stop id at which it was cached
    m_destroy_called,
    process_stop_id,               \* Process::GetStopID()
    valid_stop_infos,              \* StopInfo objects whose IsValid() is true
    private_stop_reason,           \* what GetPrivateStopReason() returns
    registers,                     \* frame-zero register values
    frame_zero,                    \* GetStackFrameAtIndex(0) is non-null
    saved_state,                   \* the caller's ThreadStateCheckpoint
    m_callback,                    \* ThreadPlanShouldStopHere: the callback,
    m_baton,                       \* its baton,
    m_owner,                       \* the plan that holds the policy
    m_flags,                       \* and its flag set
    call                           \* the last Thread call: name, arguments,
                                   \* result and the calls it made on plans

vars ==
    << m_plan_stack, m_completed_plan_stack, m_discarded_plan_stack, plans,
       m_resume_state, m_temporary_resume_state, m_actual_stop_info_sp,
       m_thread_stop_reason_stop_id, m_destroy_called, process_stop_id,
       valid_stop_infos, private_stop_reason, registers, frame_zero,
       saved_state, m_callback, m_baton, m_owner, m_flags, call >>

stackVars ==
    << m_plan_stack, m_completed_plan_stack, m_discarded_plan_stack >>

stopInfoVars ==
    << m_actual_stop_info_sp, m_thread_stop_reason_stop_id, valid_stop_infos >>

envVars ==
    << process_stop_id, private_stop_reason, registers, frame_zero >>

shouldStopHereVars == << m_callback, m_baton, m_owner, m_flags >>

----------------------------------------------------------------------------
(* Bounds *)

\* plan objects other than the base plan alive at one time
MaxPlans == 2

\* distinct raw StopInfo objects the process layer hands out
MaxStopInfos == 1

\* the process stop id counts up to this
MaxStopId == 1

\* frame-zero register values range over 0..MaxReg
MaxReg == 1

----------------------------------------------------------------------------
(* Values *)

NULL == -1

PlanIds == 0 .. MaxPlans

eStateRunning == "eStateRunning"

eStateSuspended == "eStateSuspended"

eStateInvalid == "eStateInvalid"

StateTypes == {eStateRunning, eStateSuspended, eStateInvalid}

eKindBase == "eKindBase"

eKindStepOverBreakpoint == "eKindStepOverBreakpoint"

eKindOther == "eKindOther"

\* the slot of an id no live plan has
NoPlan ==
    [kind |-> "none", master |-> FALSE, okay |-> FALSE, private |-> FALSE,
     auto_continue |-> FALSE]

\* OkayToDiscard is read only behind IsMasterPlan (lines 492, 541, 956-958),
\* so a plan that is not a master plan is kept with okay = TRUE.
PlanFlags(kind, master, okay, private) ==
    [kind |-> kind, master |-> master, okay |-> (~master) \/ okay,
     private |-> private, auto_continue |-> FALSE]

\* the flags a base plan may have (ThreadPlanBase is not part of Thread.cpp)
BasePlanFlags ==
    { PlanFlags(eKindBase, m, o, FALSE) : m \in BOOLEAN, o \in BOOLEAN }

\* the plans a caller hands to QueueThreadPlan: master or not, okay to
\* discard or not
SteppingPlanFlags ==
    { PlanFlags(eKindOther, m, o, FALSE) : m \in BOOLEAN, o \in BOOLEAN }

\* the plans a caller hands to QueueThreadPlan: private or not
ReportedPlanFlags ==
    { PlanFlags(eKindOther, FALSE, FALSE, p) : p \in BOOLEAN }

\* the plan a caller hands to QueueThreadPlan: no flag set
PlainPlanFlags == { PlanFlags(eKindOther, FALSE, FALSE, FALSE) }

\* lines 307-317: the plan SetupForResume builds
StepOverBreakpointFlags(auto_continue) ==
    [PlanFlags(eKindStepOverBreakpoint, FALSE, FALSE, TRUE)
        EXCEPT !.auto_continue = auto_continue]

NoStopInfo == [kind |-> "null", id |-> 0, plan |-> NULL, value |-> NULL]

RawStopInfo(n) == [kind |-> "raw", id |-> n, plan |-> NULL, value |-> NULL]

RawStopInfos == { RawStopInfo(n) : n \in 1 .. MaxStopInfos }

PlanCompleteStopInfo(plan, return_valobj) ==
    [kind |-> "plan", id |-> 0, plan |-> plan, value |-> return_valobj]

\* ThreadPlanShouldStopHere: callbacks and batons a plan may configure (a
\* null function pointer and a null baton included) and the flag sets
NullCallback == "null"

Callbacks == {"callback1", "callback2"}

NullBaton == "null"

Batons == {"baton1"}

eNone == "eNone"

eAvoidNoDebug == "eAvoidNoDebug"

FlagSets == {eNone, eAvoidNoDebug}

\* ThreadStateCheckpoint: register_backup, stop_info_sp, orig_stop_id; `set`
\* tells a checkpoint that was taken from the default-constructed one.
\* cached_at_checkpoint and plan_counts are history: the cached StopInfo and
\* the sizes of the three stacks when the checkpoint was taken.
NoCheckpoint ==
    [set |-> FALSE, register_backup |-> 0, stop_info_sp |-> NoStopInfo,
     orig_stop_id |-> 0, cached_at_checkpoint |-> NoStopInfo,
     plan_counts |-> << 0, 0, 0 >>]

NoCall ==
    [op |-> "Thread", flag |-> FALSE, ptr |-> NULL, arg |-> "none",
     ret |-> "void", retp |-> NULL, trace |-> << >>]

----------------------------------------------------------------------------
(* Sequences *)

Back(s) == s[Len(s)]

PopBack(s) == SubSeq(s, 1, Len(s) - 1)

Elems(s) == { s[i] : i \in 1 .. Len(s) }

MaxOf(S) == CHOOSE x \in S : \A y \in S : y <= x

MinOf(S) == CHOOSE x \in S : \A y \in S : x <= y

----------------------------------------------------------------------------
(* The plan stacks as a value, threaded through one Thread call *)

Cfg ==
    [stack |-> m_plan_stack, completed |-> m_completed_plan_stack,
     discarded |-> m_discarded_plan_stack, trace |-> << >>, hung |-> FALSE]

Event(p, name, ans) == [plan |-> p, call |-> name, ans |-> ans]

\* a hook the Thread runs on plan p; ans: p is the top of the active stack
Hook(c, p, name) ==
    [c EXCEPT !.trace =
        Append(@, Event(p, name, Len(c.stack) > 0 /\ Back(c.stack) = p))]

\* a question the Thread asks plan p: one outcome per answer
Ask(c, p, name) ==
    { [c EXCEPT !.trace = Append(@, Event(p, name, b))] : b \in BOOLEAN }

\* the answer to the question asked last
Ans(c) == Back(c.trace).ans

\* faulty variant of PushPlan: DidPush runs before the plan is on the stack
PushPlanC_HookFirst(c, p) ==
    IF p = NULL THEN c
    ELSE [Hook(c, p, "DidPush") EXCEPT !.stack = Append(@, p)]

\* lines 692-714
PushPlanC(c, p) ==
    IF p = NULL THEN c
    ELSE Hook([c EXCEPT !.stack = Append(@, p)], p, "DidPush")

\* faulty variant of PopPlan: the size guard of line 721 is missing
PopPlanC_Unguarded(c) ==
    LET plan == Back(c.stack)
        c1 == [c EXCEPT !.completed = Append(@, plan)]
        c2 == Hook(c1, plan, "WillPop")
    IN [c2 EXCEPT !.stack = PopBack(@)]

\* faulty variant of PopPlan: WillPop (line 731) runs after the plan is
\* off the stack
PopPlanC_PopsFirst(c) ==
    IF Len(c.stack) <= 1 THEN c
    ELSE LET plan == Back(c.stack)
             c1 == [c EXCEPT !.completed = Append(@, plan),
                             !.stack = PopBack(@)]
         IN Hook(c1, plan, "WillPop")

PopPlanC(c) ==
    IF Len(c.stack) <= 1 THEN c
    ELSE LET plan == Back(c.stack)
             c1 == [c EXCEPT !.completed = Append(@, plan)]
             c2 == Hook(c1, plan, "WillPop")
         IN [c2 EXCEPT !.stack = PopBack(@)]

\* faulty variant of DiscardPlan: the size guard of line 739 is missing
DiscardPlanC_Unguarded(c) ==
    LET plan == Back(c.stack)
        c1 == [c EXCEPT !.discarded = Append(@, plan)]
        c2 == Hook(c1, plan, "WillPop")
    IN [c2 EXCEPT !.stack = PopBack(@)]

\* faulty variant of DiscardPlan: the plan goes to the completed plans
DiscardPlanC_ToCompleted(c) ==
    IF Len(c.stack) > 1
    THEN LET plan == Back(c.stack)
             c1 == [c EXCEPT !.completed = Append(@, plan)]
             c2 == Hook(c1, plan, "WillPop")
         IN [c2 EXCEPT !.stack = PopBack(@)]
    ELSE c

DiscardPlanC(c) ==
    IF Len(c.stack) > 1
    THEN LET plan == Back(c.stack)
             c1 == [c EXCEPT !.discarded = Append(@, plan)]
             c2 == Hook(c1, plan, "WillPop")
         IN [c2 EXCEPT !.stack = PopBack(@)]
    ELSE c

GetCurrentPlanC(c) == Back(c.stack)

\* faulty variant of GetPreviousPlan: the step from the first completed
\* plan to the active stack (lines 832-838) is missing
GetPreviousPlanC_StopsAtBoundary(c, current_plan) ==
    IF current_plan = NULL THEN NULL
    ELSE LET cs == c.completed
             ps == c.stack
             inC == { i \in 2 .. Len(cs) : cs[i] = current_plan }
             inP == { i \in 2 .. Len(ps) : ps[i] = current_plan }
         IN IF inC # {} THEN cs[MaxOf(inC) - 1]
            ELSE IF inP # {} THEN ps[MaxOf(inP) - 1]
            ELSE NULL

GetPreviousPlanC(c, current_plan) ==
    IF current_plan = NULL THEN NULL
    ELSE LET cs == c.completed
             ps == c.stack
             inC == { i \in 2 .. Len(cs) : cs[i] = current_plan }
             inP == { i \in 2 .. Len(ps) : ps[i] = current_plan }
         IN IF inC # {} THEN cs[MaxOf(inC) - 1]
            ELSE IF Len(cs) > 0 /\ cs[1] = current_plan
                 THEN (IF Len(ps) > 0 THEN Back(ps) ELSE NULL)
            ELSE IF inP # {} THEN ps[MaxOf(inP) - 1]
            ELSE NULL

PlanIsBasePlanC(c, plan_ptr) ==
    IF plans[plan_ptr].kind = eKindBase THEN TRUE
    ELSE IF Len(c.stack) = 0 THEN FALSE
    ELSE c.stack[1] = plan_ptr

RECURSIVE DiscardTimes(_, _)
\* n calls of DiscardPlan in a row
DiscardTimes(c, n) ==
    IF n <= 0 THEN c ELSE DiscardTimes(DiscardPlanC(c), n - 1)

RECURSIVE DiscardUntilLastOne_Exclusive(_, _, _)
\* faulty variant of lines 917-922: the loop ends when the plan is on top,
\* without discarding it
DiscardUntilLastOne_Exclusive(c, up_to_plan_ptr, n) ==
    IF n <= 0 THEN c
    ELSE IF GetCurrentPlanC(c) = up_to_plan_ptr THEN c
    ELSE DiscardUntilLastOne_Exclusive(DiscardPlanC(c), up_to_plan_ptr, n - 1)

RECURSIVE DiscardUntilLastOne(_, _, _)
\* the loop of lines 917-922: n iterations are left
DiscardUntilLastOne(c, up_to_plan_ptr, n) ==
    IF n <= 0 THEN c
    ELSE IF GetCurrentPlanC(c) = up_to_plan_ptr THEN DiscardPlanC(c)
    ELSE DiscardUntilLastOne(DiscardPlanC(c), up_to_plan_ptr, n - 1)

DiscardThreadPlansUpToPlanC(c, up_to_plan_ptr) ==
    LET stack_size == Len(c.stack)
        found_it == \E i \in 2 .. stack_size : c.stack[i] = up_to_plan_ptr
    IN IF up_to_plan_ptr = NULL THEN DiscardTimes(c, stack_size - 1)
       ELSE IF found_it
            THEN DiscardUntilLastOne(c, up_to_plan_ptr, stack_size - 1)
       ELSE c

RECURSIVE DiscardMasterLoop_IgnoresOkay(_)
\* faulty variant of lines 947-989: the answer of OkayToDiscard (line 958)
\* is not used, a master plan is always discarded
DiscardMasterLoop_IgnoresOkay(c) ==
    LET ps == c.stack
        masters == { i \in 1 .. Len(ps) : plans[ps[i]].master }
        found == masters # {}
        master_plan_idx == IF found THEN MaxOf(masters) ELSE 0
        discards == IF found THEN {TRUE} ELSE BOOLEAN
        dependents == DiscardTimes(c, Len(ps) - master_plan_idx)
        body == IF master_plan_idx > 1 THEN DiscardPlanC(dependents)
                ELSE dependents
    IN UNION { IF ~discard THEN {c}
               ELSE IF body.stack # c.stack
                    THEN DiscardMasterLoop_IgnoresOkay(body)
               ELSE IF found THEN {[c EXCEPT !.hung = TRUE]}
               ELSE {c, [c EXCEPT !.hung = TRUE]}
             : discard \in discards }

RECURSIVE DiscardMasterLoop(_)
\* the while (1) of lines 947-989, one iteration per unfolding.  `discard`
\* is read uninitialized when no plan on the stack is a master plan: either
\* value.  An iteration that discards nothing and does not break is followed
\* by the same iteration again: the call does not return (hung), unless a
\* later uninitialized read happens to end it.
DiscardMasterLoop(c) ==
    LET ps == c.stack
        masters == { i \in 1 .. Len(ps) : plans[ps[i]].master }
        found == masters # {}
        master_plan_idx == IF found THEN MaxOf(masters) ELSE 0
        discards == IF found THEN {plans[ps[master_plan_idx]].okay}
                    ELSE BOOLEAN
        dependents == DiscardTimes(c, Len(ps) - master_plan_idx)
        body == IF master_plan_idx > 1 THEN DiscardPlanC(dependents)
                ELSE dependents
    IN UNION { IF ~discard THEN {c}
               ELSE IF body.stack # c.stack THEN DiscardMasterLoop(body)
               ELSE IF found THEN {[c EXCEPT !.hung = TRUE]}
               ELSE {c, [c EXCEPT !.hung = TRUE]}
             : discard \in discards }

\* faulty variant of DiscardThreadPlans: the forced loop of lines 939-943
\* stops one plan early
DiscardThreadPlansC_KeepsOne(c, force) ==
    IF force THEN {DiscardTimes(c, Len(c.stack) - 2)}
    ELSE DiscardMasterLoop(c)

DiscardThreadPlansC(c, force) ==
    IF force THEN {DiscardTimes(c, Len(c.stack) - 1)}
    ELSE DiscardMasterLoop(c)

QueueThreadPlanC(c, thread_plan_sp, abort_other_plans) ==
    { PushPlanC(c1, thread_plan_sp) :
        c1 \in IF abort_other_plans THEN DiscardThreadPlansC(c, TRUE) ELSE {c} }

----------------------------------------------------------------------------
(* Thread::ShouldStop, lines 376-602.  Each operator returns the set of    *)
(* outcomes [c, ret] of the rest of the call, one per combination of the   *)
(* answers the plans give to the questions that are still to be asked.     *)

Finish(c, should_stop) == [c |-> c, ret |-> should_stop]

RECURSIVE StaleSweep_DiscardsParent(_, _)
\* faulty variant of lines 575-588: a stale plan takes the plan below it
\* with it
StaleSweep_DiscardsParent(c, plan_ptr) ==
    IF PlanIsBasePlanC(c, plan_ptr) THEN {c}
    ELSE UNION { LET stale == Ans(c1)
                     examined_plan == plan_ptr
                     next == GetPreviousPlanC(c1, examined_plan)
                     c2 == IF stale
                           THEN DiscardThreadPlansUpToPlanC(c1, next)
                           ELSE c1
                 IN StaleSweep_DiscardsParent(c2,
                        IF \E i \in 1 .. Len(c2.stack) : c2.stack[i] = next
                        THEN next ELSE GetCurrentPlanC(c2))
               : c1 \in Ask(c, plan_ptr, "IsPlanStale") }

RECURSIVE StaleSweep(_, _)
\* lines 575-588
StaleSweep(c, plan_ptr) ==
    IF PlanIsBasePlanC(c, plan_ptr) THEN {c}
    ELSE UNION { LET stale == Ans(c1)
                     examined_plan == plan_ptr
                     next == GetPreviousPlanC(c1, examined_plan)
                     c2 == IF stale
                           THEN DiscardThreadPlansUpToPlanC(c1, examined_plan)
                           ELSE c1
                 IN StaleSweep(c2, next)
               : c1 \in Ask(c, plan_ptr, "IsPlanStale") }

\* faulty variant of lines 565-589: the override of line 565 is missing
AfterTopLoop_NoOverride(c, should_stop, over_ride_stop) ==
    IF should_stop
    THEN { Finish(c1, TRUE) : c1 \in StaleSweep(c, GetCurrentPlanC(c)) }
    ELSE { Finish(c, FALSE) }

\* faulty variant of lines 565-589: the sweep looks at the verdict of the
\* plans, not at the verdict after the override
AfterTopLoop_SweepsOnOverride(c, should_stop, over_ride_stop) ==
    LET stop == IF over_ride_stop THEN FALSE ELSE should_stop
    IN IF should_stop
       THEN { Finish(c1, stop) : c1 \in StaleSweep(c, GetCurrentPlanC(c)) }
       ELSE { Finish(c, FALSE) }

\* lines 565-589
AfterTopLoop(c, should_stop, over_ride_stop) ==
    LET stop == IF over_ride_stop THEN FALSE ELSE should_stop
    IN IF stop
       THEN { Finish(c1, TRUE) : c1 \in StaleSweep(c, GetCurrentPlanC(c)) }
       ELSE { Finish(c, FALSE) }

RECURSIVE TopLoop_KeepsVerdict(_, _, _)
\* faulty variant of lines 525-562: a plan that is not done leaves the loop
\* with the verdict it was entered with
TopLoop_KeepsVerdict(c, current_plan, should_stop) ==
    IF PlanIsBasePlanC(c, current_plan)
    THEN { [c |-> c, should_stop |-> should_stop] }
    ELSE UNION { UNION {
            LET stop == Ans(c1)
                c3 == IF stop THEN Hook(c2, current_plan, "WillStop") ELSE c2
                c4 == PopPlanC(c3)
            IN IF ~Ans(c2) THEN { [c |-> c2, should_stop |-> should_stop] }
               ELSE IF stop /\ plans[current_plan].master
                            /\ ~plans[current_plan].okay
                    THEN { [c |-> c4, should_stop |-> stop] }
               ELSE TopLoop_KeepsVerdict(c4, GetCurrentPlanC(c4), stop)
          : c2 \in Ask(c1, current_plan, "MischiefManaged") }
        : c1 \in Ask(c, current_plan, "ShouldStop") }

RECURSIVE TopLoop_NoWillStop(_, _, _)
\* faulty variant of lines 525-562: WillStop (line 536) is not delivered
TopLoop_NoWillStop(c, current_plan, should_stop) ==
    IF PlanIsBasePlanC(c, current_plan)
    THEN { [c |-> c, should_stop |-> should_stop] }
    ELSE UNION { UNION {
            LET stop == Ans(c1)
                c4 == PopPlanC(c2)
            IN IF ~Ans(c2) THEN { [c |-> c2, should_stop |-> stop] }
               ELSE IF stop /\ plans[current_plan].master
                            /\ ~plans[current_plan].okay
                    THEN { [c |-> c4, should_stop |-> stop] }
               ELSE TopLoop_NoWillStop(c4, GetCurrentPlanC(c4), stop)
          : c2 \in Ask(c1, current_plan, "MischiefManaged") }
        : c1 \in Ask(c, current_plan, "ShouldStop") }

RECURSIVE TopLoop(_, _, _)
\* the while (1) of lines 525-562: outcomes [c, should_stop]
TopLoop(c, current_plan, should_stop) ==
    IF PlanIsBasePlanC(c, current_plan)
    THEN { [c |-> c, should_stop |-> should_stop] }
    ELSE UNION { UNION {
            LET stop == Ans(c1)
                c3 == IF stop THEN Hook(c2, current_plan, "WillStop") ELSE c2
                c4 == PopPlanC(c3)
            IN IF ~Ans(c2) THEN { [c |-> c2, should_stop |-> stop] }
               ELSE IF stop /\ plans[current_plan].master
                            /\ ~plans[current_plan].okay
                    THEN { [c |-> c4, should_stop |-> stop] }
               ELSE TopLoop(c4, GetCurrentPlanC(c4), stop)
          : c2 \in Ask(c1, current_plan, "MischiefManaged") }
        : c1 \in Ask(c, current_plan, "ShouldStop") }

\* lines 507-591
Resolve(c, current_plan, should_stop, done_processing_current_plan) ==
    IF done_processing_current_plan THEN { Finish(c, should_stop) }
    ELSE UNION {
            LET over_ride_stop == Ans(c1)
            IN IF PlanIsBasePlanC(c1, current_plan)
               THEN UNION { AfterTopLoop(c2, Ans(c2), over_ride_stop)
                          : c2 \in Ask(c1, current_plan, "ShouldStop") }
               ELSE UNION { AfterTopLoop(r.c, r.should_stop, over_ride_stop)
                          : r \in TopLoop(c1, current_plan, should_stop) }
          : c1 \in Ask(c, current_plan, "ShouldAutoContinue") }

RECURSIVE PopUpTo_Discards(_, _, _, _)
\* faulty variant of lines 483-489: the plans are discarded, not popped
PopUpTo_Discards(c, current_plan, prev_plan_ptr, should_stop) ==
    LET c1 == IF should_stop THEN Hook(c, current_plan, "WillStop") ELSE c
        c2 == DiscardPlanC(c1)
    IN IF GetCurrentPlanC(c2) = prev_plan_ptr THEN c2
       ELSE IF c2.stack = c.stack THEN [c2 EXCEPT !.hung = TRUE]
       ELSE PopUpTo_Discards(c2, GetCurrentPlanC(c2), prev_plan_ptr,
                             should_stop)

RECURSIVE PopUpTo(_, _, _, _)
\* the do/while of lines 483-489.  A PopPlan that pops nothing leaves
\* GetCurrentPlan() as it was: the loop then never ends (hung).
PopUpTo(c, current_plan, prev_plan_ptr, should_stop) ==
    LET c1 == IF should_stop THEN Hook(c, current_plan, "WillStop") ELSE c
        c2 == PopPlanC(c1)
    IN IF GetCurrentPlanC(c2) = prev_plan_ptr THEN c2
       ELSE IF c2.stack = c.stack THEN [c2 EXCEPT !.hung = TRUE]
       ELSE PopUpTo(c2, GetCurrentPlanC(c2), prev_plan_ptr, should_stop)

\* faulty variant of lines 473-500: the test of line 492 is turned round
ExplainedBy_MasterForwards(c, current_plan, plan_ptr) ==
    UNION { UNION {
        LET should_stop == Ans(c1)
            prev_plan_ptr == GetPreviousPlanC(c2, plan_ptr)
            popped == PopUpTo(c2, current_plan, prev_plan_ptr, should_stop)
        IN IF ~Ans(c2) THEN Resolve(c2, current_plan, should_stop, TRUE)
           ELSE IF popped.hung THEN { Finish(popped, should_stop) }
           ELSE Resolve(popped, GetCurrentPlanC(popped), should_stop,
                        ~(plans[plan_ptr].master /\ ~plans[plan_ptr].okay))
      : c2 \in Ask(c1, plan_ptr, "MischiefManaged") }
    : c1 \in Ask(c, plan_ptr, "ShouldStop") }

\* faulty variant of lines 473-500: a plan that explains the stop and is
\* not done leaves the stop to the top plan (line 498 missing)
ExplainedBy_UndoneForwards(c, current_plan, plan_ptr) ==
    UNION { UNION {
        LET should_stop == Ans(c1)
            prev_plan_ptr == GetPreviousPlanC(c2, plan_ptr)
            popped == PopUpTo(c2, current_plan, prev_plan_ptr, should_stop)
        IN IF ~Ans(c2) THEN Resolve(c2, current_plan, should_stop, FALSE)
           ELSE IF popped.hung THEN { Finish(popped, should_stop) }
           ELSE Resolve(popped, GetCurrentPlanC(popped), should_stop,
                        plans[plan_ptr].master /\ ~plans[plan_ptr].okay)
      : c2 \in Ask(c1, plan_ptr, "MischiefManaged") }
    : c1 \in Ask(c, plan_ptr, "ShouldStop") }

\* lines 473-500: plan_ptr, below the top, explains the stop
ExplainedBy(c, current_plan, plan_ptr) ==
    UNION { UNION {
        LET should_stop == Ans(c1)
            prev_plan_ptr == GetPreviousPlanC(c2, plan_ptr)
            popped == PopUpTo(c2, current_plan, prev_plan_ptr, should_stop)
        IN IF ~Ans(c2) THEN Resolve(c2, current_plan, should_stop, TRUE)
           ELSE IF popped.hung THEN { Finish(popped, should_stop) }
           ELSE Resolve(popped, GetCurrentPlanC(popped), should_stop,
                        plans[plan_ptr].master /\ ~plans[plan_ptr].okay)
      : c2 \in Ask(c1, plan_ptr, "MischiefManaged") }
    : c1 \in Ask(c, plan_ptr, "ShouldStop") }

RECURSIVE ScanForExplainer_SkipsOne(_, _, _)
\* faulty variant of lines 469-503: the scan passes over every other plan
ScanForExplainer_SkipsOne(c, current_plan, plan_ptr) ==
    LET next == GetPreviousPlanC(c, GetPreviousPlanC(c, plan_ptr))
    IN IF next = NULL THEN Resolve(c, current_plan, TRUE, FALSE)
       ELSE UNION { IF Ans(c1) THEN ExplainedBy(c1, current_plan, next)
                    ELSE ScanForExplainer_SkipsOne(c1, current_plan, next)
                  : c1 \in Ask(c, next, "PlanExplainsStop") }

RECURSIVE ScanForExplainer(_, _, _)
\* the while of lines 469-503; plan_ptr is the plan examined last
ScanForExplainer(c, current_plan, plan_ptr) ==
    LET next == GetPreviousPlanC(c, plan_ptr)
    IN IF next = NULL THEN Resolve(c, current_plan, TRUE, FALSE)
       ELSE UNION { IF Ans(c1) THEN ExplainedBy(c1, current_plan, next)
                    ELSE ScanForExplainer(c1, current_plan, next)
                  : c1 \in Ask(c, next, "PlanExplainsStop") }

\* faulty variant of lines 455-505: a stop the tracer explains is handed to
\* the plans below all the same
FindExplainer_TracerIgnored(c, current_plan) ==
    UNION { IF Ans(c1) THEN Resolve(c1, current_plan, TRUE, FALSE)
            ELSE UNION { ScanForExplainer(c2, current_plan, current_plan)
                       : c2 \in Ask(c1, current_plan, "TracerExplainsStop") }
          : c1 \in Ask(c, current_plan, "PlanExplainsStop") }

\* lines 455-505
FindExplainer(c, current_plan) ==
    UNION { IF Ans(c1) THEN Resolve(c1, current_plan, TRUE, FALSE)
            ELSE UNION { IF Ans(c2) THEN Resolve(c2, current_plan, FALSE, TRUE)
                         ELSE ScanForExplainer(c2, current_plan, current_plan)
                       : c2 \in Ask(c1, current_plan, "TracerExplainsStop") }
          : c1 \in Ask(c, current_plan, "PlanExplainsStop") }

ThreadStoppedForAReason == private_stop_reason # NoStopInfo

\* faulty variant of ShouldStop: the guard of lines 397-408 is missing
ShouldStopC_NoTemporaryCheck(c) ==
    LET current_plan == GetCurrentPlanC(c)
    IN IF m_resume_state = eStateSuspended THEN { Finish(c, FALSE) }
       ELSE IF ~ThreadStoppedForAReason THEN { Finish(c, FALSE) }
       ELSE UNION { IF ~Ans(c2) THEN { Finish(c2, FALSE) }
                    ELSE FindExplainer(c2, current_plan)
                  : c2 \in Ask(Hook(c, current_plan, "DoTraceLog"), NULL,
                               "StopInfo::ShouldStopSynchronous") }

\* faulty variant of ShouldStop: the answer of ShouldStopSynchronous (line
\* 443) is not used
ShouldStopC_IgnoresSynchronous(c) ==
    LET current_plan == GetCurrentPlanC(c)
    IN IF m_resume_state = eStateSuspended THEN { Finish(c, FALSE) }
       ELSE IF m_temporary_resume_state = eStateSuspended
            THEN { Finish(c, FALSE) }
       ELSE IF ~ThreadStoppedForAReason THEN { Finish(c, FALSE) }
       ELSE UNION { FindExplainer(c2, current_plan)
                  : c2 \in Ask(Hook(c, current_plan, "DoTraceLog"), NULL,
                               "StopInfo::ShouldStopSynchronous") }

\* lines 376-448
ShouldStopC(c) ==
    LET current_plan == GetCurrentPlanC(c)
    IN IF m_resume_state = eStateSuspended THEN { Finish(c, FALSE) }
       ELSE IF m_temporary_resume_state = eStateSuspended
            THEN { Finish(c, FALSE) }
       ELSE IF ~ThreadStoppedForAReason THEN { Finish(c, FALSE) }
       ELSE UNION { IF ~Ans(c2) THEN { Finish(c2, FALSE) }
                    ELSE FindExplainer(c2, current_plan)
                  : c2 \in Ask(Hook(c, current_plan, "DoTraceLog"), NULL,
                               "StopInfo::ShouldStopSynchronous") }

----------------------------------------------------------------------------
(* State after construction: Thread::Thread, lines 139-166 *)

BasePlan == 0

\* no ThreadPlanShouldStopHere object is looked at
NoShouldStopHere ==
    /\ m_callback = NullCallback
    /\ m_baton = NullBaton
    /\ m_owner = NULL
    /\ m_flags = eNone

InitThread(base_flags) ==
    /\ m_plan_stack = << BasePlan >>
    /\ m_completed_plan_stack = << >>
    /\ m_discarded_plan_stack = << >>
    /\ plans = [i \in PlanIds |-> IF i = BasePlan THEN base_flags ELSE NoPlan]
    /\ m_resume_state = eStateRunning
    /\ m_temporary_resume_state = eStateRunning
    /\ m_actual_stop_info_sp = NoStopInfo
    /\ m_thread_stop_reason_stop_id = 0
    /\ m_destroy_called = FALSE
    /\ process_stop_id = 0
    /\ valid_stop_infos = {}
    /\ private_stop_reason = NoStopInfo
    /\ registers = 0
    /\ frame_zero = TRUE
    /\ saved_state = NoCheckpoint
    /\ call = NoCall

InitWith(base_flags) == InitThread(base_flags) /\ NoShouldStopHere

Init == \E base_flags \in BasePlanFlags : InitWith(base_flags)

----------------------------------------------------------------------------
(* Plumbing of the actions *)

\* a StopInfo object no shared pointer refers to is destroyed
Referenced(valid, si1, si2, si3) == valid \cap {si1, si2, si3}

\* a call can be made: the thread is not torn down, the object is not
\* destroyed and no call is stuck
Callable ==
    /\ ~m_destroy_called
    /\ call.op # "~Thread"
    /\ call.ret # "diverges"

BoolRet(b) == IF b THEN "true" ELSE "false"

\* plan objects some shared pointer still refers to
LivePlans(c, si1, si2) ==
    (Elems(c.stack) \cup Elems(c.completed) \cup Elems(c.discarded)
        \cup {si1.plan, si1.value, si2.plan, si2.value}) \ {NULL}

\* a plan object nothing refers to is destroyed
Collect(pl, live) == [i \in PlanIds |-> IF i \in live THEN pl[i] ELSE NoPlan]

FreePlanIds ==
    PlanIds \ LivePlans(Cfg, m_actual_stop_info_sp, saved_state.stop_info_sp)

\* the stacks and the record of the call, for a call that leaves the
\* stop-info cache and the checkpoint alone
Commit(c, pl, op, flag, ptr, ret, retp) ==
    /\ m_plan_stack' = c.stack
    /\ m_completed_plan_stack' = c.completed
    /\ m_discarded_plan_stack' = c.discarded
    /\ plans' = Collect(pl, LivePlans(c, m_actual_stop_info_sp,
                                      saved_state.stop_info_sp))
    /\ call' = [op |-> op, flag |-> flag, ptr |-> ptr, arg |-> "none",
                ret |-> IF c.hung THEN "diverges" ELSE ret,
                retp |-> IF c.hung THEN NULL ELSE retp, trace |-> c.trace]

----------------------------------------------------------------------------
(* Plan stack operations *)

QueueThreadPlan(user_flags) ==
    /\ Callable
    /\ FreePlanIds # {}
    /\ \E flags \in user_flags \cup {NoPlan}, abort_other_plans \in BOOLEAN :
        LET new == MinOf(FreePlanIds)
            thread_plan_sp == IF flags = NoPlan THEN NULL ELSE new
        IN \E c \in QueueThreadPlanC(Cfg, thread_plan_sp, abort_other_plans) :
              Commit(c, [plans EXCEPT ![new] = flags], "QueueThreadPlan",
                     abort_other_plans, thread_plan_sp, "void", NULL)
    /\ UNCHANGED << m_resume_state, m_temporary_resume_state, stopInfoVars,
                    m_destroy_called, envVars, saved_state >>
    /\ UNCHANGED shouldStopHereVars

PopPlan ==
    /\ Callable
    /\ Commit(PopPlanC(Cfg), plans, "PopPlan", FALSE, NULL, "void", NULL)
    /\ UNCHANGED << m_resume_state, m_temporary_resume_state, stopInfoVars,
                    m_destroy_called, envVars, saved_state >>
    /\ UNCHANGED shouldStopHereVars

DiscardPlan ==
    /\ Callable
    /\ Commit(DiscardPlanC(Cfg), plans, "DiscardPlan", FALSE, NULL, "void",
              NULL)
    /\ UNCHANGED << m_resume_state, m_temporary_resume_state, stopInfoVars,
                    m_destroy_called, envVars, saved_state >>
    /\ UNCHANGED shouldStopHereVars

DiscardThreadPlans ==
    /\ Callable
    /\ \E force \in BOOLEAN : \E c \in DiscardThreadPlansC(Cfg, force) :
          Commit(c, plans, "DiscardThreadPlans", force, NULL, "void", NULL)
    /\ UNCHANGED << m_resume_state, m_temporary_resume_state, stopInfoVars,
                    m_destroy_called, envVars, saved_state >>
    /\ UNCHANGED shouldStopHereVars

\* up_to_plan_ptr: null, a plan of one of the three stacks, or a plan that
\* is on none
DiscardThreadPlansUpToPlan ==
    /\ Callable
    /\ \E up_to_plan_ptr \in PlanIds \cup {NULL} :
          Commit(DiscardThreadPlansUpToPlanC(Cfg, up_to_plan_ptr), plans,
                 "DiscardThreadPlansUpToPlan", FALSE, up_to_plan_ptr, "void",
                 NULL)
    /\ UNCHANGED << m_resume_state, m_temporary_resume_state, stopInfoVars,
                    m_destroy_called, envVars, saved_state >>
    /\ UNCHANGED shouldStopHereVars

\* lines 819-847.  current_plan: null, a plan of one of the three stacks,
\* or a plan that is on none
GetPreviousPlan ==
    /\ Callable
    /\ \E current_plan \in PlanIds \cup {NULL} :
          call' = [op |-> "GetPreviousPlan", flag |-> FALSE,
                   ptr |-> current_plan, arg |-> "none", ret |-> "void",
                   retp |-> GetPreviousPlanC(Cfg, current_plan),
                   trace |-> << >>]
    /\ UNCHANGED << stackVars, plans, m_resume_state, m_temporary_resume_state,
                    stopInfoVars, m_destroy_called, envVars, saved_state >>
    /\ UNCHANGED shouldStopHereVars

\* faulty variant of QueueThreadPlanForStepOut: the other plans are
\* discarded before the new plan is validated
QueueThreadPlanForStepOutC_DiscardsFirst(c, thread_plan_sp, abort_other_plans) ==
    UNION { UNION { IF Ans(c1)
                    THEN { [c |-> PushPlanC(c1, thread_plan_sp),
                            retp |-> thread_plan_sp] }
                    ELSE { [c |-> c1, retp |-> NULL] }
                  : c1 \in Ask(c0, thread_plan_sp, "ValidatePlan") }
          : c0 \in IF abort_other_plans THEN DiscardThreadPlansC(c, TRUE)
                   ELSE {c} }

\* lines 1061-1090: the plan is built, then validated, then queued
QueueThreadPlanForStepOutC(c, thread_plan_sp, abort_other_plans) ==
    UNION { IF Ans(c1)
            THEN { [c |-> c2, retp |-> thread_plan_sp] :
                     c2 \in QueueThreadPlanC(c1, thread_plan_sp,
                                             abort_other_plans) }
            ELSE { [c |-> c1, retp |-> NULL] }
          : c1 \in Ask(c, thread_plan_sp, "ValidatePlan") }

QueueThreadPlanForStepOut(user_flags) ==
    /\ Callable
    /\ FreePlanIds # {}
    /\ \E flags \in user_flags, abort_other_plans \in BOOLEAN :
        LET new == MinOf(FreePlanIds)
        IN \E r \in QueueThreadPlanForStepOutC(Cfg, new, abort_other_plans) :
                 Commit(r.c, [plans EXCEPT ![new] = flags],
                        "QueueThreadPlanForStepOut", abort_other_plans, NULL,
                        "void", r.retp)
    /\ UNCHANGED << m_resume_state, m_temporary_resume_state, stopInfoVars,
                    m_destroy_called, envVars, saved_state >>
    /\ UNCHANGED shouldStopHereVars

\* lines 1092-1101
QueueThreadPlanForStepThroughC(c, thread_plan_sp, abort_other_plans) ==
    UNION { IF thread_plan_sp = NULL \/ ~Ans(c1)
            THEN { [c |-> c1, retp |-> NULL] }
            ELSE { [c |-> c2, retp |-> thread_plan_sp] :
                     c2 \in QueueThreadPlanC(c1, thread_plan_sp,
                                             abort_other_plans) }
          : c1 \in Ask(c, thread_plan_sp, "ValidatePlan") }

QueueThreadPlanForStepThrough(user_flags) ==
    /\ Callable
    /\ FreePlanIds # {}
    /\ \E flags \in user_flags, abort_other_plans \in BOOLEAN :
        LET new == MinOf(FreePlanIds)
        IN \E r \in QueueThreadPlanForStepThroughC(Cfg, new,
                                                      abort_other_plans) :
                 Commit(r.c, [plans EXCEPT ![new] = flags],
                        "QueueThreadPlanForStepThrough", abort_other_plans,
                        NULL, "void", r.retp)
    /\ UNCHANGED << m_resume_state, m_temporary_resume_state, stopInfoVars,
                    m_destroy_called, envVars, saved_state >>
    /\ UNCHANGED shouldStopHereVars

\* the entry points of lines 1011-1059 and 1103-1136: each builds a plan,
\* calls QueueThreadPlan and returns the plan
UnvalidatedEntryPoints ==
    {"QueueThreadPlanForStepSingleInstruction", "QueueThreadPlanForStepRange",
     "QueueThreadPlanForStepOverBreakpointPlan",
     "QueueThreadPlanForCallFunction", "QueueThreadPlanForRunToAddress",
     "QueueThreadPlanForStepUntil"}

\* the plan an entry point builds (lines 1019, 1038-1046, 1056, 1110, 1120,
\* 1132)
BuiltPlanFlags(entry) ==
    PlanFlags(IF entry = "QueueThreadPlanForStepOverBreakpointPlan"
              THEN eKindStepOverBreakpoint ELSE eKindOther,
              FALSE, FALSE, FALSE)

\* what ValidatePlan would answer for the plan built, which these entry
\* points do not ask
ValidityOfBuiltPlan(valid) == IF valid THEN "valid plan" ELSE "invalid plan"

\* lines 1019-1021 and the like: outcomes [c, retp]
QueueThreadPlanForC(c, thread_plan_sp, abort_other_plans) ==
    { [c |-> c1, retp |-> thread_plan_sp] :
        c1 \in QueueThreadPlanC(c, thread_plan_sp, abort_other_plans) }

QueueThreadPlanFor ==
    /\ Callable
    /\ FreePlanIds # {}
    /\ \E entry \in UnvalidatedEntryPoints, abort_other_plans \in BOOLEAN,
          valid \in BOOLEAN :
        LET new == MinOf(FreePlanIds)
        IN \E r \in QueueThreadPlanForC(Cfg, new, abort_other_plans) :
              /\ m_plan_stack' = r.c.stack
              /\ m_completed_plan_stack' = r.c.completed
              /\ m_discarded_plan_stack' = r.c.discarded
              /\ plans' = Collect([plans EXCEPT ![new] = BuiltPlanFlags(entry)],
                                  LivePlans(r.c, m_actual_stop_info_sp,
                                            saved_state.stop_info_sp))
              /\ call' = [op |-> entry, flag |-> abort_other_plans,
                          ptr |-> NULL, arg |-> ValidityOfBuiltPlan(valid),
                          ret |-> "void", retp |-> r.retp, trace |-> r.c.trace]
    /\ UNCHANGED << m_resume_state, m_temporary_resume_state, stopInfoVars,
                    m_destroy_called, envVars, saved_state >>
    /\ UNCHANGED shouldStopHereVars

----------------------------------------------------------------------------
(* Stop processing *)

ShouldStop ==
    /\ Callable
    /\ \E r \in ShouldStopC(Cfg) :
          Commit(r.c, plans, "ShouldStop", FALSE, NULL, BoolRet(r.ret), NULL)
    /\ UNCHANGED << m_resume_state, m_temporary_resume_state, stopInfoVars,
                    m_destroy_called, envVars, saved_state >>
    /\ UNCHANGED shouldStopHereVars

\* Thread::SetResumeState (Thread.h): the state the user asks for
SetResumeState(states) ==
    /\ Callable
    /\ \E state \in states :
          /\ state # m_resume_state
          /\ m_resume_state' = state
    /\ call' = [NoCall EXCEPT !.op = "SetResumeState"]
    /\ UNCHANGED << stackVars, plans, m_temporary_resume_state, stopInfoVars,
                    m_destroy_called, envVars, saved_state >>
    /\ UNCHANGED shouldStopHereVars

\* the process layer: the thread stops for reason si, or for none.  A
\* StopInfo object is valid when it is made.
ThreadStops(reasons) ==
    /\ Callable
    /\ \E si \in reasons :
          /\ si # private_stop_reason
          /\ private_stop_reason' = si
          /\ valid_stop_infos' =
                Referenced(IF si \in {m_actual_stop_info_sp,
                                     saved_state.stop_info_sp, NoStopInfo}
                           THEN valid_stop_infos
                           ELSE valid_stop_infos \cup {si},
                           m_actual_stop_info_sp, saved_state.stop_info_sp, si)
    /\ call' = [NoCall EXCEPT !.op = "ThreadStops"]
    /\ UNCHANGED << stackVars, plans, m_resume_state,
                    m_temporary_resume_state, m_actual_stop_info_sp,
                    m_thread_stop_reason_stop_id, m_destroy_called,
                    process_stop_id, registers, frame_zero, saved_state >>
    /\ UNCHANGED shouldStopHereVars

\* faulty variant of DestroyThread: it does not record that it ran
DestroyThread_NotRecorded ==
    /\ Callable
    /\ m_plan_stack' = << >>
    /\ m_discarded_plan_stack' = << >>
    /\ m_completed_plan_stack' = << >>
    /\ m_actual_stop_info_sp' = NoStopInfo
    /\ plans' = Collect(plans, {saved_state.stop_info_sp.plan,
                                saved_state.stop_info_sp.value} \ {NULL})
    /\ valid_stop_infos' =
          Referenced(valid_stop_infos, NoStopInfo, saved_state.stop_info_sp,
                     private_stop_reason)
    /\ call' = [NoCall EXCEPT !.op = "DestroyThread"]
    /\ UNCHANGED << m_resume_state, m_temporary_resume_state,
                    m_thread_stop_reason_stop_id, m_destroy_called, envVars,
                    saved_state >>
    /\ UNCHANGED shouldStopHereVars

\* lines 178-186
DestroyThread ==
    /\ Callable
    /\ m_plan_stack' = << >>
    /\ m_discarded_plan_stack' = << >>
    /\ m_completed_plan_stack' = << >>
    /\ m_actual_stop_info_sp' = NoStopInfo
    /\ m_destroy_called' = TRUE
    /\ plans' = Collect(plans, {saved_state.stop_info_sp.plan,
                                saved_state.stop_info_sp.value} \ {NULL})
    /\ valid_stop_infos' =
          Referenced(valid_stop_infos, NoStopInfo, saved_state.stop_info_sp,
                     private_stop_reason)
    /\ call' = [NoCall EXCEPT !.op = "DestroyThread"]
    /\ UNCHANGED << m_resume_state, m_temporary_resume_state,
                    m_thread_stop_reason_stop_id, envVars, saved_state >>
    /\ UNCHANGED shouldStopHereVars

\* lines 169-176: the destructor of the object; assert (m_destroy_called)
ThreadDestructor ==
    /\ call.op # "~Thread"
    /\ call.ret # "diverges"
    /\ call' = [NoCall EXCEPT !.op = "~Thread",
                              !.ret = IF m_destroy_called THEN "void"
                                      ELSE "assertion failed"]
    /\ UNCHANGED << stackVars, plans, m_resume_state,
                    m_temporary_resume_state, stopInfoVars, m_destroy_called,
                    envVars, saved_state >>
    /\ UNCHANGED shouldStopHereVars

----------------------------------------------------------------------------
(* Vote aggregation, lines 604-681 *)

eVoteNo == "eVoteNo"

eVoteNoOpinion == "eVoteNoOpinion"

eVoteYes == "eVoteYes"

Votes == {eVoteNo, eVoteNoOpinion, eVoteYes}

\* the name under which the vote of a plan is recorded
VoteCall(name, vote) == name \o "=" \o vote

\* the Thread asks plan p for its vote: one outcome [c, vote] per vote
AskVote(c, p, name) ==
    { [c |-> Hook(c, p, VoteCall(name, vote)), vote |-> vote] : vote \in Votes }

\* the plan the vote is delegated to, lines 633-645 and 660-680
VotingPlanC(c) ==
    IF Len(c.completed) > 0 THEN Back(c.completed) ELSE GetCurrentPlanC(c)

\* faulty variant of ShouldReportStop: the completed plan is taken from
\* GetCompletedPlan, which skips private plans
ShouldReportStopC_PublicOnly(c) ==
    IF m_resume_state \in {eStateSuspended, eStateInvalid}
    THEN { [c |-> c, vote |-> eVoteNoOpinion] }
    ELSE IF m_temporary_resume_state \in {eStateSuspended, eStateInvalid}
    THEN { [c |-> c, vote |-> eVoteNoOpinion] }
    ELSE IF ~ThreadStoppedForAReason
    THEN { [c |-> c, vote |-> eVoteNoOpinion] }
    ELSE LET public == { i \in 1 .. Len(c.completed) :
                           ~plans[c.completed[i]].private }
         IN AskVote(c, IF public # {} THEN c.completed[MaxOf(public)]
                       ELSE GetCurrentPlanC(c), "ShouldReportStop")

\* lines 604-646: outcomes [c, vote]
ShouldReportStopC(c) ==
    IF m_resume_state \in {eStateSuspended, eStateInvalid}
    THEN { [c |-> c, vote |-> eVoteNoOpinion] }
    ELSE IF m_temporary_resume_state \in {eStateSuspended, eStateInvalid}
    THEN { [c |-> c, vote |-> eVoteNoOpinion] }
    ELSE IF ~ThreadStoppedForAReason
    THEN { [c |-> c, vote |-> eVoteNoOpinion] }
    ELSE AskVote(c, VotingPlanC(c), "ShouldReportStop")

ShouldReportStop ==
    /\ Callable
    /\ \E r \in ShouldReportStopC(Cfg) :
          Commit(r.c, plans, "ShouldReportStop", FALSE, NULL, r.vote, NULL)
    /\ UNCHANGED << m_resume_state, m_temporary_resume_state, stopInfoVars,
                    m_destroy_called, envVars, saved_state >>
    /\ UNCHANGED shouldStopHereVars

\* lines 648-681: outcomes [c, vote]
ShouldReportRunC(c) ==
    IF m_resume_state \in {eStateSuspended, eStateInvalid}
    THEN { [c |-> c, vote |-> eVoteNoOpinion] }
    ELSE AskVote(c, VotingPlanC(c), "ShouldReportRun")

ShouldReportRun ==
    /\ Callable
    /\ \E r \in ShouldReportRunC(Cfg) :
          Commit(r.c, plans, "ShouldReportRun", FALSE, NULL, r.vote, NULL)
    /\ UNCHANGED << m_resume_state, m_temporary_resume_state, stopInfoVars,
                    m_destroy_called, envVars, saved_state >>
    /\ UNCHANGED shouldStopHereVars

----------------------------------------------------------------------------
(* Resuming *)

\* faulty variant of SetupForResume: the kind of the top plan is not looked
\* at
SetupForResumeC_AnyTopPlan(c, new) ==
    IF m_resume_state = eStateSuspended THEN { [c |-> c, pushed |-> FALSE,
                                                auto_continue |-> FALSE] }
    ELSE UNION {
        LET cur_plan == GetCurrentPlanC(c1)
        IN IF ~Ans(c1)
           THEN { [c |-> c1, pushed |-> FALSE, auto_continue |-> FALSE] }
           ELSE UNION { { [c |-> c3, pushed |-> TRUE,
                           auto_continue |-> ~Ans(c2)] :
                            c3 \in QueueThreadPlanC(c2, new, FALSE) }
                      : c2 \in Ask(c1, cur_plan, "RunState:eStateStepping") }
      : c1 \in Ask(c, NULL, "BreakpointSite::IsEnabled") }

\* lines 286-323; the plan object for the new plan is `new`
SetupForResumeC(c, new) ==
    IF m_resume_state = eStateSuspended THEN { [c |-> c, pushed |-> FALSE,
                                                auto_continue |-> FALSE] }
    ELSE UNION {
        LET cur_plan == GetCurrentPlanC(c1)
        IN IF ~Ans(c1) \/ plans[cur_plan].kind = eKindStepOverBreakpoint
           THEN { [c |-> c1, pushed |-> FALSE, auto_continue |-> FALSE] }
           ELSE UNION { { [c |-> c3, pushed |-> TRUE,
                           auto_continue |-> ~Ans(c2)] :
                            c3 \in QueueThreadPlanC(c2, new, FALSE) }
                      : c2 \in Ask(c1, cur_plan, "RunState:eStateStepping") }
      : c1 \in Ask(c, NULL, "BreakpointSite::IsEnabled") }

SetupForResume ==
    /\ Callable
    /\ LET new == IF FreePlanIds = {} THEN NULL ELSE MinOf(FreePlanIds)
       IN \E r \in SetupForResumeC(Cfg, new) :
            /\ r.pushed => new # NULL
            /\ Commit(r.c,
                      IF r.pushed
                      THEN [plans EXCEPT
                              ![new] = StepOverBreakpointFlags(r.auto_continue)]
                      ELSE plans,
                      "SetupForResume", FALSE, NULL, "void", NULL)
    /\ UNCHANGED << m_resume_state, m_temporary_resume_state, stopInfoVars,
                    m_destroy_called, envVars, saved_state >>
    /\ UNCHANGED shouldStopHereVars

RECURSIVE WillResumeLower(_, _)
\* the while of lines 354-357
WillResumeLower(c, plan_ptr) ==
    LET next == GetPreviousPlanC(c, plan_ptr)
    IN IF next = NULL THEN c
       ELSE WillResumeLower(Hook(c, next, "WillResume:lower"), next)

\* a step of a call that is no call on a plan; ans: it changed something
Step(c, name, ans) ==
    [c EXCEPT !.trace = Append(@, Event(NULL, name, ans))]

\* lines 329-330
ClearHistories(c) ==
    LET c1 == [Step(c, "m_completed_plan_stack.clear", c.completed # << >>)
                 EXCEPT !.completed = << >>]
    IN [Step(c1, "m_discarded_plan_stack.clear", c1.discarded # << >>)
          EXCEPT !.discarded = << >>]

\* faulty variant of WillResume: the histories are cleared after the hooks
WillResumeC_ClearsLast(c) ==
    LET c2 == IF /\ m_thread_stop_reason_stop_id = process_stop_id
                 /\ m_actual_stop_info_sp # NoStopInfo
                 /\ m_actual_stop_info_sp \in valid_stop_infos
                 /\ private_stop_reason # NoStopInfo
              THEN Hook(c, NULL, "StopInfo::WillResume")
              ELSE c
        plan_ptr == GetCurrentPlanC(c2)
    IN { [c |-> ClearHistories(WillResumeLower(c3, plan_ptr)),
          need_to_resume |-> Ans(c3)] :
           c3 \in Ask(c2, plan_ptr, "WillResume:top") }

\* faulty variant of WillResume: the plans below the top one are not told
WillResumeC_TopOnly(c) ==
    LET c1 == ClearHistories(c)
        c2 == IF /\ m_thread_stop_reason_stop_id = process_stop_id
                 /\ m_actual_stop_info_sp # NoStopInfo
                 /\ m_actual_stop_info_sp \in valid_stop_infos
                 /\ private_stop_reason # NoStopInfo
              THEN Hook(c1, NULL, "StopInfo::WillResume")
              ELSE c1
        plan_ptr == GetCurrentPlanC(c2)
    IN { [c |-> c3, need_to_resume |-> Ans(c3)] :
           c3 \in Ask(c2, plan_ptr, "WillResume:top") }

\* lines 325-368: outcomes [c, need_to_resume]
WillResumeC(c) ==
    LET c1 == ClearHistories(c)
        c2 == IF /\ m_thread_stop_reason_stop_id = process_stop_id
                 /\ m_actual_stop_info_sp # NoStopInfo
                 /\ m_actual_stop_info_sp \in valid_stop_infos
                 /\ private_stop_reason # NoStopInfo
              THEN Hook(c1, NULL, "StopInfo::WillResume")
              ELSE c1
        plan_ptr == GetCurrentPlanC(c2)
    IN { [c |-> WillResumeLower(c3, plan_ptr), need_to_resume |-> Ans(c3)] :
           c3 \in Ask(c2, plan_ptr, "WillResume:top") }

\* faulty variant of lines 362-365: the cache is reset on a fake resume
ActualAfterWillResume_OnFake(need_to_resume) ==
    IF need_to_resume THEN m_actual_stop_info_sp ELSE NoStopInfo

\* lines 362-365: the cached StopInfo when WillResume returns
ActualAfterWillResume(need_to_resume) ==
    IF need_to_resume THEN NoStopInfo ELSE m_actual_stop_info_sp

WillResume(states) ==
    /\ Callable
    /\ \E resume_state \in states, r \in WillResumeC(Cfg) :
        LET actual == ActualAfterWillResume(r.need_to_resume)
        IN /\ m_plan_stack' = r.c.stack
           /\ m_completed_plan_stack' = r.c.completed
           /\ m_discarded_plan_stack' = r.c.discarded
           /\ m_temporary_resume_state' = resume_state
           /\ m_actual_stop_info_sp' = actual
           /\ plans' = Collect(plans, LivePlans(r.c, actual,
                                               saved_state.stop_info_sp))
           /\ valid_stop_infos' =
                 Referenced(valid_stop_infos, actual,
                            saved_state.stop_info_sp, private_stop_reason)
           /\ call' = [op |-> "WillResume", flag |-> FALSE, ptr |-> NULL,
                       arg |-> resume_state,
                       ret |-> BoolRet(r.need_to_resume), retp |-> NULL,
                       trace |-> r.c.trace]
    /\ UNCHANGED << m_resume_state, m_thread_stop_reason_stop_id,
                    m_destroy_called, envVars, saved_state >>
    /\ UNCHANGED shouldStopHereVars

----------------------------------------------------------------------------
(* The stop-info cache and the thread state checkpoint *)

\* faulty variant of GetCompletedPlan: private plans are not skipped
GetCompletedPlanC_AnyPlan(c) ==
    IF Len(c.completed) = 0 THEN NULL ELSE Back(c.completed)

\* lines 758-773: the index of the last completed plan that is not private
GetCompletedPlanC(c) ==
    LET public == { i \in 1 .. Len(c.completed) :
                      ~plans[c.completed[i]].private }
    IN IF public = {} THEN NULL ELSE c.completed[MaxOf(public)]

RECURSIVE GetReturnValueObjectC(_, _)
\* lines 775-789, from index i down: outcomes [c, value]; a return value
\* object is named by the plan that holds it
GetReturnValueObjectC(c, i) ==
    IF i < 1 THEN { [c |-> c, value |-> NULL] }
    ELSE UNION { IF Ans(c1) THEN { [c |-> c1, value |-> c.completed[i]] }
                 ELSE GetReturnValueObjectC(c1, i - 1)
               : c1 \in Ask(c, c.completed[i], "GetReturnValueObject") }

\* faulty variant of lines 195-203: the stop id of the cache is not compared
CachedOrPrivate_AnyStopId(c) ==
    IF /\ m_actual_stop_info_sp # NoStopInfo
       /\ m_actual_stop_info_sp \in valid_stop_infos
    THEN [c |-> c, stop_info |-> m_actual_stop_info_sp]
    ELSE [c |-> Hook(c, NULL, "GetPrivateStopReason"),
          stop_info |-> private_stop_reason]

\* lines 195-203: the cached StopInfo, or what GetPrivateStopReason returns
CachedOrPrivate(c) ==
    IF /\ m_actual_stop_info_sp # NoStopInfo
       /\ m_actual_stop_info_sp \in valid_stop_infos
       /\ m_thread_stop_reason_stop_id = process_stop_id
    THEN [c |-> c, stop_info |-> m_actual_stop_info_sp]
    ELSE [c |-> Hook(c, NULL, "GetPrivateStopReason"),
          stop_info |-> private_stop_reason]

\* lines 188-205: outcomes [c, stop_info]
GetStopInfoC(c) ==
    LET plan_sp == GetCompletedPlanC(c)
    IN IF plan_sp = NULL THEN { CachedOrPrivate(c) }
       ELSE UNION { IF Ans(c1)
                    THEN { [c |-> r.c,
                            stop_info |-> PlanCompleteStopInfo(plan_sp, r.value)]
                         : r \in GetReturnValueObjectC(c1, Len(c1.completed)) }
                    ELSE { CachedOrPrivate(c1) }
                  : c1 \in Ask(c, plan_sp, "PlanSucceeded") }

\* the StopInfo a call hands back, in the call record
StopInfoRet(si) ==
    IF si.kind = "null" THEN "null"
    ELSE IF si.kind = "plan" THEN "plan-complete"
    ELSE "raw"

GetStopInfo ==
    /\ Callable
    /\ \E r \in GetStopInfoC(Cfg) :
          call' = [op |-> "GetStopInfo", flag |-> FALSE, ptr |-> r.stop_info.plan,
                   arg |-> "none",
                   ret |-> StopInfoRet(r.stop_info), retp |-> r.stop_info.value,
                   trace |-> r.c.trace]
    /\ UNCHANGED << stackVars, plans, m_resume_state, m_temporary_resume_state,
                    stopInfoVars, m_destroy_called, envVars, saved_state >>
    /\ UNCHANGED shouldStopHereVars

\* faulty variant of SetStopInfo: a null StopInfo leaves the cache alone
SetStopInfoC_KeepsOnNull(stop_info_sp) ==
    IF stop_info_sp = NoStopInfo
    THEN [actual |-> m_actual_stop_info_sp, valid |-> valid_stop_infos,
          stop_id |-> m_thread_stop_reason_stop_id]
    ELSE [actual |-> stop_info_sp,
          valid |-> Referenced(valid_stop_infos \cup {stop_info_sp},
                               stop_info_sp, saved_state.stop_info_sp,
                               private_stop_reason),
          stop_id |-> process_stop_id]

\* lines 207-218: the new values of the three stop-info variables
SetStopInfoC(stop_info_sp) ==
    [actual |-> stop_info_sp,
     valid |-> Referenced(IF stop_info_sp # NoStopInfo
                          THEN valid_stop_infos \cup {stop_info_sp}
                          ELSE valid_stop_infos,
                          stop_info_sp, saved_state.stop_info_sp,
                          private_stop_reason),
     stop_id |-> process_stop_id]

SetStopInfo ==
    /\ Callable
    /\ \E stop_info_sp \in RawStopInfos \cup {NoStopInfo} :
        LET n == SetStopInfoC(stop_info_sp)
        IN /\ m_actual_stop_info_sp' = n.actual
           /\ valid_stop_infos' = n.valid
           /\ m_thread_stop_reason_stop_id' = n.stop_id
           /\ plans' = Collect(plans, LivePlans(Cfg, n.actual,
                                               saved_state.stop_info_sp))
    /\ call' = [NoCall EXCEPT !.op = "SetStopInfo"]
    /\ UNCHANGED << stackVars, m_resume_state, m_temporary_resume_state,
                    m_destroy_called, envVars, saved_state >>
    /\ UNCHANGED shouldStopHereVars

PlanCounts ==
    << Len(m_plan_stack), Len(m_completed_plan_stack),
       Len(m_discarded_plan_stack) >>

\* lines 234-245 with SaveFrameZeroState, lines 1411-1421
CheckpointThreadState ==
    /\ Callable
    /\ IF ~frame_zero
       THEN /\ call' = [NoCall EXCEPT !.op = "CheckpointThreadState",
                                      !.ret = "false"]
            /\ UNCHANGED saved_state
       ELSE \E r \in GetStopInfoC(Cfg) :
            /\ saved_state' =
                  [set |-> TRUE, register_backup |-> registers,
                   stop_info_sp |-> r.stop_info,
                   orig_stop_id |-> process_stop_id,
                   cached_at_checkpoint |-> m_actual_stop_info_sp,
                   plan_counts |-> PlanCounts]
            /\ call' = [op |-> "CheckpointThreadState", flag |-> FALSE,
                        ptr |-> NULL, arg |-> "none", ret |-> "true",
                        retp |-> NULL,
                        trace |-> r.c.trace]
    /\ plans' = Collect(plans, LivePlans(Cfg, m_actual_stop_info_sp,
                                        saved_state'.stop_info_sp))
    /\ valid_stop_infos' =
          Referenced(IF saved_state'.stop_info_sp.kind = "plan"
                     THEN valid_stop_infos \cup {saved_state'.stop_info_sp}
                     ELSE valid_stop_infos,
                     m_actual_stop_info_sp, saved_state'.stop_info_sp,
                     private_stop_reason)
    /\ UNCHANGED << stackVars, m_resume_state, m_temporary_resume_state,
                    m_actual_stop_info_sp, m_thread_stop_reason_stop_id,
                    m_destroy_called, envVars >>
    /\ UNCHANGED shouldStopHereVars

\* lines 247-255 with RestoreSaveFrameZero, lines 1423-1438
RestoreThreadStateFromCheckpoint ==
    /\ Callable
    /\ saved_state.set
    /\ registers' = IF frame_zero THEN saved_state.register_backup
                    ELSE registers
    /\ LET n == SetStopInfoC(saved_state.stop_info_sp)
       IN /\ m_actual_stop_info_sp' = n.actual
          /\ valid_stop_infos' = n.valid
          /\ m_thread_stop_reason_stop_id' = n.stop_id
          /\ plans' = Collect(plans, LivePlans(Cfg, n.actual,
                                              saved_state.stop_info_sp))
    /\ call' = [NoCall EXCEPT !.op = "RestoreThreadStateFromCheckpoint",
                              !.ret = "true"]
    /\ UNCHANGED << stackVars, m_resume_state, m_temporary_resume_state,
                    m_destroy_called, process_stop_id, private_stop_reason,
                    frame_zero, saved_state >>
    /\ UNCHANGED shouldStopHereVars

\* the inferior has run and stopped again: a new stop id
ProcessStops ==
    /\ Callable
    /\ process_stop_id < MaxStopId
    /\ process_stop_id' = process_stop_id + 1
    /\ call' = [NoCall EXCEPT !.op = "ProcessStops"]
    /\ UNCHANGED << stackVars, plans, m_resume_state,
                    m_temporary_resume_state, stopInfoVars, m_destroy_called,
                    private_stop_reason, registers, frame_zero, saved_state >>
    /\ UNCHANGED shouldStopHereVars

\* a register of frame zero is written
WriteRegister ==
    /\ Callable
    /\ \E value \in 0 .. MaxReg :
          /\ value # registers
          /\ registers' = value
    /\ call' = [NoCall EXCEPT !.op = "WriteRegister"]
    /\ UNCHANGED << stackVars, plans, m_resume_state,
                    m_temporary_resume_state, stopInfoVars, m_destroy_called,
                    process_stop_id, private_stop_reason, frame_zero,
                    saved_state >>
    /\ UNCHANGED shouldStopHereVars

\* the thread loses or regains its frame zero
FrameZeroChanges ==
    /\ Callable
    /\ frame_zero' = ~frame_zero
    /\ call' = [NoCall EXCEPT !.op = "FrameZeroChanges"]
    /\ UNCHANGED << stackVars, plans, m_resume_state,
                    m_temporary_resume_state, stopInfoVars, m_destroy_called,
                    process_stop_id, private_stop_reason, registers,
                    saved_state >>
    /\ UNCHANGED shouldStopHereVars

\* the caller is done with its ThreadStateCheckpoint
ForgetCheckpoint ==
    /\ Callable
    /\ saved_state.set
    /\ saved_state' = NoCheckpoint
    /\ plans' = Collect(plans, LivePlans(Cfg, m_actual_stop_info_sp,
                                        NoStopInfo))
    /\ valid_stop_infos' =
          Referenced(valid_stop_infos, m_actual_stop_info_sp, NoStopInfo,
                     private_stop_reason)
    /\ call' = [NoCall EXCEPT !.op = "ForgetCheckpoint"]
    /\ UNCHANGED << stackVars, m_resume_state, m_temporary_resume_state,
                    m_actual_stop_info_sp, m_thread_stop_reason_stop_id,
                    m_destroy_called, envVars >>
    /\ UNCHANGED shouldStopHereVars

\* a StopInfo stops being valid
StopInfoInvalidated ==
    /\ Callable
    /\ \E si \in valid_stop_infos : valid_stop_infos' = valid_stop_infos \ {si}
    /\ call' = [NoCall EXCEPT !.op = "StopInfoInvalidated"]
    /\ UNCHANGED << stackVars, plans, m_resume_state,
                    m_temporary_resume_state, m_actual_stop_info_sp,
                    m_thread_stop_reason_stop_id, m_destroy_called, envVars,
                    saved_state >>
    /\ UNCHANGED shouldStopHereVars

----------------------------------------------------------------------------
(* ThreadPlanShouldStopHere (ThreadPlanShouldStopHere.cpp): the policy a   *)
(* stepping plan holds.  The callback is code of the plan's creator: what  *)
(* it returns, null or a plan to run in place of the owner, is an input.   *)

\* the call m_callback (m_owner, m_flags, m_baton), as it is recorded
CallbackCall(callback, owner, flags, baton) ==
    callback \o "(" \o ToString(owner) \o "," \o flags \o "," \o baton \o ")"

\* the plans a stepping plan may hold the policy of
Owners == 1 .. MaxPlans

\* the plans a callback may hand back
ReturnPlans == PlanIds \ {BasePlan}

\* lines 26-32: the constructor
ThreadPlanShouldStopHere ==
    /\ \E owner \in Owners, callback \in Callbacks \cup {NullCallback},
          baton \in Batons \cup {NullBaton} :
          /\ m_callback' = callback
          /\ m_baton' = baton
          /\ m_owner' = owner
          /\ m_flags' = eNone
    /\ call' = [NoCall EXCEPT !.op = "ThreadPlanShouldStopHere"]
    /\ UNCHANGED << stackVars, plans, m_resume_state,
                    m_temporary_resume_state, stopInfoVars, m_destroy_called,
                    envVars, saved_state >>

\* lines 41-46
SetShouldStopHereCallback ==
    /\ \E callback \in Callbacks \cup {NullCallback},
          baton \in Batons \cup {NullBaton} :
          /\ m_callback' = callback
          /\ m_baton' = baton
    /\ call' = [NoCall EXCEPT !.op = "SetShouldStopHereCallback"]
    /\ UNCHANGED << stackVars, plans, m_resume_state,
                    m_temporary_resume_state, stopInfoVars, m_destroy_called,
                    envVars, saved_state, m_owner, m_flags >>

\* GetFlags().Set / Clear: the plan configures the flag set
SetFlags ==
    /\ \E flags \in FlagSets : m_flags' = flags
    /\ call' = [NoCall EXCEPT !.op = "GetFlags"]
    /\ UNCHANGED << stackVars, plans, m_resume_state,
                    m_temporary_resume_state, stopInfoVars, m_destroy_called,
                    envVars, saved_state, m_callback, m_baton, m_owner >>

\* a call made on plan p for the step log
Logged(c, p, name) == [c EXCEPT !.trace = Append(@, Event(p, name, TRUE))]

\* faulty variant of InvokeShouldStopHereCallback: what the callback returns
\* is dropped
InvokeShouldStopHereCallbackC_DropsResult(c, log) ==
    IF m_callback # NullCallback
    THEN { LET called == [c EXCEPT !.trace = Append(@,
                            Event(return_plan,
                                  CallbackCall(m_callback, m_owner, m_flags,
                                               m_baton),
                                  return_plan # NULL))]
               c1 == IF log THEN Logged(called, m_owner, "GetPC") ELSE called
               c2 == IF log /\ return_plan # NULL
                     THEN Logged(c1, return_plan, "GetDescription") ELSE c1
           IN [c |-> c2, retp |-> NULL]
         : return_plan \in ReturnPlans \cup {NULL} }
    ELSE { [c |-> c, retp |-> NULL] }

\* lines 48-74: outcomes [c, retp], one per plan the callback may return.
\* The callback is recorded with its arguments; the plan of the event is
\* the plan it returned.  With the step log on, lines 55-68 read the pc
\* through the owner and describe the plan returned.
InvokeShouldStopHereCallbackC(c, log) ==
    IF m_callback # NullCallback
    THEN { LET called == [c EXCEPT !.trace = Append(@,
                            Event(return_plan,
                                  CallbackCall(m_callback, m_owner, m_flags,
                                               m_baton),
                                  return_plan # NULL))]
               c1 == IF log THEN Logged(called, m_owner, "GetPC") ELSE called
               c2 == IF log /\ return_plan # NULL
                     THEN Logged(c1, return_plan, "GetDescription") ELSE c1
           IN [c |-> c2, retp |-> return_plan]
         : return_plan \in ReturnPlans \cup {NULL} }
    ELSE { [c |-> c, retp |-> NULL] }

InvokeShouldStopHereCallback ==
    /\ \E log \in BOOLEAN : \E r \in InvokeShouldStopHereCallbackC(Cfg, log) :
          call' = [op |-> "InvokeShouldStopHereCallback", flag |-> log,
                   ptr |-> NULL, arg |-> "none", ret |-> "void",
                   retp |-> r.retp, trace |-> r.c.trace]
    /\ UNCHANGED << stackVars, plans, m_resume_state,
                    m_temporary_resume_state, stopInfoVars, m_destroy_called,
                    envVars, saved_state, shouldStopHereVars >>

----------------------------------------------------------------------------
(* The plan machine: every plan-stack operation, the pre-resume protocol   *)
(* and the stop decision                                                   *)

Next ==
    \/ QueueThreadPlan(SteppingPlanFlags)
    \/ PopPlan
    \/ DiscardPlan
    \/ DiscardThreadPlans
    \/ DiscardThreadPlansUpToPlan
    \/ QueueThreadPlanForStepOut(SteppingPlanFlags)
    \/ QueueThreadPlanForStepThrough(SteppingPlanFlags)
    \/ SetupForResume
    \/ WillResume({eStateRunning, eStateSuspended})
    \/ ShouldStop
    \/ SetResumeState({eStateRunning, eStateSuspended})
    \/ ThreadStops({NoStopInfo, RawStopInfo(1)})
    \/ DestroyThread

Spec == Init /\ [][Next]_vars

----------------------------------------------------------------------------
(* The stop-info machine: the cache, the checkpoint and the plans whose    *)
(* completion GetStopInfo reports.  No action of it reads the base plan's  *)
(* flags.                                                                  *)

InitStopInfo == InitWith(PlanFlags(eKindBase, TRUE, FALSE, FALSE))

NextStopInfo ==
    \/ QueueThreadPlan(ReportedPlanFlags)
    \/ PopPlan
    \/ DiscardPlan
    \/ WillResume({eStateRunning})
    \/ GetStopInfo
    \/ SetStopInfo
    \/ ProcessStops
    \/ StopInfoInvalidated
    \/ ThreadStops(RawStopInfos \cup {NoStopInfo})

SpecStopInfo == InitStopInfo /\ [][NextStopInfo]_vars

----------------------------------------------------------------------------
(* The checkpoint machine: CheckpointThreadState and                       *)
(* RestoreThreadStateFromCheckpoint among the calls and events that change *)
(* what they save and restore.  Plans are queued and popped while the      *)
(* caller holds no checkpoint.                                             *)

NextCheckpoint ==
    \/ (~saved_state.set /\ QueueThreadPlan(PlainPlanFlags))
    \/ (~saved_state.set /\ PopPlan)
    \/ SetStopInfo
    \/ CheckpointThreadState
    \/ RestoreThreadStateFromCheckpoint
    \/ ForgetCheckpoint
    \/ ProcessStops
    \/ WriteRegister
    \/ FrameZeroChanges
    \/ StopInfoInvalidated
    \/ ThreadStops(RawStopInfos \cup {NoStopInfo})

SpecCheckpoint == InitStopInfo /\ [][NextCheckpoint]_vars

----------------------------------------------------------------------------
(* The vote machine: ShouldReportStop and ShouldReportRun among the calls  *)
(* that change what they read: the two resume states, the stop reason, the *)
(* completed plans and the top plan                                        *)

NextReport ==
    \/ QueueThreadPlan(ReportedPlanFlags)
    \/ PopPlan
    \/ WillResume(StateTypes)
    \/ SetResumeState(StateTypes)
    \/ ThreadStops({NoStopInfo, RawStopInfo(1)})
    \/ ShouldReportStop
    \/ ShouldReportRun

SpecReport == InitStopInfo /\ [][NextReport]_vars

----------------------------------------------------------------------------
(* The teardown machine: DestroyThread and the destructor among the calls  *)
(* that fill what DestroyThread empties                                    *)

NextTeardown ==
    \/ QueueThreadPlan(ReportedPlanFlags)
    \/ PopPlan
    \/ DiscardPlan
    \/ SetStopInfo
    \/ ThreadStops(RawStopInfos \cup {NoStopInfo})
    \/ DestroyThread
    \/ ThreadDestructor

SpecTeardown == InitStopInfo /\ [][NextTeardown]_vars

----------------------------------------------------------------------------
(* The entry-point machine: every QueueThreadPlanFor* call among the calls *)
(* that take plans off the stack again                                     *)

NextQueueFor ==
    \/ QueueThreadPlanFor
    \/ QueueThreadPlanForStepOut(PlainPlanFlags)
    \/ QueueThreadPlanForStepThrough(PlainPlanFlags)
    \/ PopPlan
    \/ DiscardPlan

SpecQueueFor == InitStopInfo /\ [][NextQueueFor]_vars

----------------------------------------------------------------------------
(* The plan stack alone: queueing, popping, discarding and resuming, with  *)
(* every assignment of master / okay-to-discard flags to the plans.        *)

NextStack ==
    \/ QueueThreadPlan(SteppingPlanFlags)
    \/ PopPlan
    \/ DiscardPlan
    \/ DiscardThreadPlans
    \/ DiscardThreadPlansUpToPlan
    \/ GetPreviousPlan
    \/ WillResume({eStateRunning})

SpecStack == Init /\ [][NextStack]_vars

----------------------------------------------------------------------------
(* The ShouldStopHere policy of one stepping plan: constructed, configured *)
(* and invoked.                                                            *)

InitShouldStopHere ==
    /\ InitThread(PlanFlags(eKindBase, TRUE, FALSE, FALSE))
    /\ m_callback \in Callbacks \cup {NullCallback}
    /\ m_baton \in Batons \cup {NullBaton}
    /\ m_owner \in Owners
    /\ m_flags = eNone

NextShouldStopHere ==
    \/ ThreadPlanShouldStopHere
    \/ SetShouldStopHereCallback
    \/ SetFlags
    \/ InvokeShouldStopHereCallback

SpecShouldStopHere == InitShouldStopHere /\ [][NextShouldStopHere]_vars

----------------------------------------------------------------------------
(* Properties of the plan machine.  A property of one call is stated over  *)
(* the step that makes it: unprimed variables are the state before the     *)
(* call, primed ones the state after it, and call' is the record of the    *)
(* call.  A plan "answers" a question when the call asked it: the answer   *)
(* is the one in call'.trace.                                              *)

\* the call asked plan p the question `name` and got the answer ans
Asked(tr, p, name, ans) ==
    \E i \in 1 .. Len(tr) : tr[i] = Event(p, name, ans)

\* the call asked plan p the question `name`, or ran the hook `name` on it
Consulted(tr, p, name) ==
    \E i \in 1 .. Len(tr) : tr[i].plan = p /\ tr[i].call = name

\* the call ran hook `first` on plan p before it ran hook `second` on it
HookBefore(tr, p, first, second) ==
    \E i, j \in 1 .. Len(tr) :
        /\ i < j
        /\ tr[i].plan = p /\ tr[i].call = first
        /\ tr[j].plan = p /\ tr[j].call = second

\* C1: from construction until DestroyThread, whatever calls were made, the
\* active plan stack has at least one element and its element 0 is the base
\* plan the constructor pushed.
C1_BasePlanStays ==
    ~m_destroy_called =>
        Len(m_plan_stack) >= 1 /\ m_plan_stack[1] = BasePlan

\* ShouldStop has popped two plans and the base plan is what is left
C1_Witness ==
    /\ call.op = "ShouldStop"
    /\ m_plan_stack = << BasePlan >>
    /\ Len(m_completed_plan_stack) >= 2
    /\ ~m_destroy_called

\* C2: after DiscardThreadPlans(force = true) the active stack is the base
\* plan alone, and every plan that was above the base plan is among the
\* discarded plans and not among the completed plans.
C2_ForcedDiscard ==
    [][ (call'.op = "DiscardThreadPlans" /\ call'.flag) =>
           /\ m_plan_stack' = << BasePlan >>
           /\ \A i \in 2 .. Len(m_plan_stack) :
                 /\ m_plan_stack[i] \in Elems(m_discarded_plan_stack')
                 /\ m_plan_stack[i] \notin Elems(m_completed_plan_stack') ]_vars

\* a forced DiscardThreadPlans has discarded two plans
C2_Witness ==
    /\ call.op = "DiscardThreadPlans"
    /\ call.flag
    /\ Len(call.trace) = 2
    /\ m_plan_stack = << BasePlan >>
    /\ Len(m_discarded_plan_stack) >= 2

\* no plan is in both histories, and no plan of a history is on the active
\* stack
HistoriesDisjoint ==
    /\ Elems(m_completed_plan_stack) \cap Elems(m_discarded_plan_stack) = {}
    /\ Elems(m_plan_stack) \cap Elems(m_completed_plan_stack) = {}
    /\ Elems(m_plan_stack) \cap Elems(m_discarded_plan_stack) = {}

\* C3: the plan PopPlan removes is appended to the completed plans and is
\* not among the discarded ones; the plan DiscardPlan removes is appended to
\* the discarded plans and is not among the completed ones; and in every
\* reachable state no plan is in both histories and no plan of a history is
\* still on the active stack.
C3_HistoriesApart ==
    /\ HistoriesDisjoint
    /\ [][ /\ ( (call'.op = "PopPlan" /\ m_plan_stack' # m_plan_stack) =>
                  ( /\ m_completed_plan_stack' =
                         Append(m_completed_plan_stack, Back(m_plan_stack))
                    /\ Back(m_plan_stack)
                         \notin Elems(m_discarded_plan_stack') ) )
            /\ ( (call'.op = "DiscardPlan" /\ m_plan_stack' # m_plan_stack) =>
                  ( /\ m_discarded_plan_stack' =
                         Append(m_discarded_plan_stack, Back(m_plan_stack))
                    /\ Back(m_plan_stack)
                         \notin Elems(m_completed_plan_stack') ) )
            /\ HistoriesDisjoint' ]_vars

\* DiscardPlan has removed a plan while a popped plan is in the completed
\* plans
C3_Witness ==
    /\ call.op = "DiscardPlan"
    /\ Len(call.trace) = 1
    /\ Len(m_completed_plan_stack) >= 1
    /\ Len(m_discarded_plan_stack) >= 1

\* C4: PopPlan or DiscardPlan on an active stack of size 1 changes none of
\* the three stacks and delivers no WillPop; the state it leaves is one on
\* which the call does nothing again.
C4_PopAtBaseIsNoOp ==
    [][ (call'.op \in {"PopPlan", "DiscardPlan"} /\ Len(m_plan_stack) = 1) =>
           /\ UNCHANGED stackVars
           /\ ~Consulted(call'.trace, m_plan_stack[1], "WillPop")
           /\ Len(m_plan_stack') = 1 ]_vars

\* PopPlan was called with only the base plan on the stack, after other
\* plans were popped and discarded
C4_Witness ==
    /\ call.op = "PopPlan"
    /\ call.trace = << >>
    /\ m_plan_stack = << BasePlan >>
    /\ Len(m_completed_plan_stack) >= 1
    /\ Len(m_discarded_plan_stack) >= 1

\* the questions ShouldStop asks a plan to find its verdict
StopQuestions == {"PlanExplainsStop", "ShouldStop", "ShouldAutoContinue"}

\* C5: when the resume state is suspended, or the temporary resume state is
\* suspended, or the thread has no stop reason, ShouldStop returns false,
\* asks no plan PlanExplainsStop, ShouldStop or ShouldAutoContinue and leaves
\* the three stacks as they were, whatever is on the plan stack.
C5_SuspendedOrNoReason ==
    [][ ( /\ call'.op = "ShouldStop"
          /\ \/ m_resume_state = eStateSuspended
             \/ m_temporary_resume_state = eStateSuspended
             \/ private_stop_reason = NoStopInfo ) =>
           /\ call'.ret = "false"
           /\ \A i \in 1 .. Len(call'.trace) :
                 call'.trace[i].call \notin StopQuestions
           /\ UNCHANGED stackVars ]_vars

\* ShouldStop was called with plans above the base plan and a stop reason,
\* on a thread whose temporary resume state alone is suspended
C5_Witness ==
    /\ call.op = "ShouldStop"
    /\ call.ret = "false"
    /\ call.trace = << >>
    /\ m_resume_state = eStateRunning
    /\ m_temporary_resume_state = eStateSuspended
    /\ private_stop_reason # NoStopInfo
    /\ Len(m_plan_stack) >= 2

\* C6: when the top plan is not the base plan, explains the stop, answers
\* ShouldStop with false and does not report MischiefManaged, ShouldStop
\* returns false and the three stacks are as they were.
C6_StepNotDone ==
    [][ ( /\ call'.op = "ShouldStop"
          /\ Len(m_plan_stack) >= 2
          /\ Asked(call'.trace, Back(m_plan_stack), "PlanExplainsStop", TRUE)
          /\ Asked(call'.trace, Back(m_plan_stack), "ShouldStop", FALSE)
          /\ Asked(call'.trace, Back(m_plan_stack), "MischiefManaged", FALSE) ) =>
           /\ call'.ret = "false"
           /\ UNCHANGED stackVars ]_vars

\* ShouldStop has asked the plan on top of a stack of three, which explained
\* the stop, did not want to stop and was not done
C6_Witness ==
    /\ call.op = "ShouldStop"
    /\ call.ret = "false"
    /\ Len(m_plan_stack) = 3
    /\ Asked(call.trace, Back(m_plan_stack), "PlanExplainsStop", TRUE)
    /\ Asked(call.trace, Back(m_plan_stack), "ShouldStop", FALSE)
    /\ Asked(call.trace, Back(m_plan_stack), "MischiefManaged", FALSE)

MasterBelowStepOverBreakpoint(tr) ==
    /\ Len(m_plan_stack) = 3
    /\ plans[m_plan_stack[2]].master
    /\ ~plans[m_plan_stack[2]].okay
    /\ plans[m_plan_stack[3]].kind = eKindStepOverBreakpoint
    /\ plans[m_plan_stack[3]].private
    /\ Asked(tr, m_plan_stack[3], "PlanExplainsStop", TRUE)
    /\ Asked(tr, m_plan_stack[3], "MischiefManaged", TRUE)
    /\ Asked(tr, m_plan_stack[2], "MischiefManaged", FALSE)

\* C8 as stated: in that case M is still on the active stack after
\* ShouldStop, in neither history, and ShouldStop returns what M answered to
\* ShouldStop.
C8_AsStated ==
    [][ ( /\ call'.op = "ShouldStop"
          /\ MasterBelowStepOverBreakpoint(call'.trace) ) =>
           /\ m_plan_stack[2] \in Elems(m_plan_stack')
           /\ m_plan_stack[2] \notin Elems(m_completed_plan_stack')
           /\ m_plan_stack[2] \notin Elems(m_discarded_plan_stack')
           /\ Asked(call'.trace, m_plan_stack[2], "ShouldStop",
                    call'.ret = "true") ]_vars

\* C8, amended: in that case ShouldStop returns false when S answers
\* ShouldAutoContinue with true, and what M answered to ShouldStop otherwise;
\* M is still on the active stack, in neither history, unless ShouldStop
\* returns true and M reports IsPlanStale, and then M is among the discarded
\* plans.
C8_MasterPlanDecides ==
    [][ ( /\ call'.op = "ShouldStop"
          /\ MasterBelowStepOverBreakpoint(call'.trace) ) =>
           /\ IF Asked(call'.trace, m_plan_stack[3], "ShouldAutoContinue", TRUE)
              THEN call'.ret = "false"
              ELSE Asked(call'.trace, m_plan_stack[2], "ShouldStop",
                         call'.ret = "true")
           /\ m_plan_stack[2] \notin Elems(m_completed_plan_stack')
           /\ IF /\ call'.ret = "true"
                 /\ Asked(call'.trace, m_plan_stack[2], "IsPlanStale", TRUE)
              THEN /\ m_plan_stack' = << BasePlan >>
                   /\ Back(m_discarded_plan_stack') = m_plan_stack[2]
              ELSE /\ m_plan_stack' = SubSeq(m_plan_stack, 1, 2)
                   /\ m_discarded_plan_stack' = m_discarded_plan_stack ]_vars

\* ShouldStop has returned false although the master plan, now on top,
\* wanted to stop: the step-over-breakpoint plan it popped asked to
\* auto-continue
C8_Witness ==
    /\ call.op = "ShouldStop"
    /\ call.ret = "false"
    /\ Len(m_plan_stack) = 2
    /\ plans[m_plan_stack[2]].master
    /\ ~plans[m_plan_stack[2]].okay
    /\ Len(m_completed_plan_stack) >= 1
    /\ plans[Back(m_completed_plan_stack)].kind = eKindStepOverBreakpoint
    /\ Asked(call.trace, Back(m_completed_plan_stack), "PlanExplainsStop", TRUE)
    /\ Asked(call.trace, Back(m_completed_plan_stack), "ShouldAutoContinue",
             TRUE)
    /\ Asked(call.trace, m_plan_stack[2], "ShouldStop", TRUE)
    /\ Asked(call.trace, m_plan_stack[2], "MischiefManaged", FALSE)

\* C9: when the plan QueueThreadPlanForStepOut or
\* QueueThreadPlanForStepThrough has built fails ValidatePlan, the call
\* returns a null plan pointer and the three stacks are as they were, with
\* abort_other_plans true as well as false.
C9_InvalidPlanNotQueued ==
    [][ ( /\ call'.op \in {"QueueThreadPlanForStepOut",
                            "QueueThreadPlanForStepThrough"}
          /\ \E i \in 1 .. Len(call'.trace) :
                /\ call'.trace[i].call = "ValidatePlan"
                /\ ~call'.trace[i].ans ) =>
           /\ call'.retp = NULL
           /\ UNCHANGED stackVars ]_vars

\* QueueThreadPlanForStepOut was called with abort_other_plans true on a
\* stack of two, and the plan it built was not valid
C9_Witness ==
    /\ call.op = "QueueThreadPlanForStepOut"
    /\ call.flag
    /\ call.retp = NULL
    /\ Len(call.trace) = 1
    /\ call.trace[1].call = "ValidatePlan"
    /\ ~call.trace[1].ans
    /\ Len(m_plan_stack) = 2

----------------------------------------------------------------------------
(* Properties of the checkpoint machine *)

\* the cached StopInfo is the one GetStopInfo hands back when no completed
\* plan takes precedence (lines 197-201)
CacheIsCurrent ==
    /\ m_actual_stop_info_sp # NoStopInfo
    /\ m_actual_stop_info_sp \in valid_stop_infos
    /\ m_thread_stop_reason_stop_id = process_stop_id

----------------------------------------------------------------------------
(* Properties of the stop-info machine *)

\* the last plan of the completed plans that is not private, or NULL
MostRecentPublicCompleted ==
    IF \A i \in 1 .. Len(m_completed_plan_stack) :
          plans[m_completed_plan_stack[i]].private
    THEN NULL
    ELSE m_completed_plan_stack[
            CHOOSE i \in 1 .. Len(m_completed_plan_stack) :
                /\ ~plans[m_completed_plan_stack[i]].private
                /\ \A j \in (i + 1) .. Len(m_completed_plan_stack) :
                      plans[m_completed_plan_stack[j]].private ]

\* the call got the answer true to PlanSucceeded
SomePlanSucceeded(tr) ==
    \E i \in 1 .. Len(tr) : tr[i].call = "PlanSucceeded" /\ tr[i].ans

\* C11: GetStopInfo returns a plan-complete StopInfo it has made if and only
\* if the most recently completed plan that is not private answers
\* PlanSucceeded with true; it then does so whatever is cached, and the
\* StopInfo is for that plan.  A private plan is never asked PlanSucceeded
\* and is never the plan of the StopInfo returned.
C11_PlanCompleteFirst ==
    [][ call'.op = "GetStopInfo" =>
           /\ IF /\ MostRecentPublicCompleted # NULL
                 /\ Asked(call'.trace, MostRecentPublicCompleted,
                          "PlanSucceeded", TRUE)
              THEN call'.ret = "plan-complete"
                   /\ call'.ptr = MostRecentPublicCompleted
              ELSE call'.ret # "plan-complete"
           /\ \A i \in 1 .. Len(call'.trace) :
                 call'.trace[i].call = "PlanSucceeded" =>
                    /\ call'.trace[i].plan = MostRecentPublicCompleted
                    /\ ~plans[call'.trace[i].plan].private ]_vars

\* GetStopInfo has returned the plan-complete StopInfo of the first of two
\* completed plans, the second being private, with a valid StopInfo of the
\* current stop id cached
C11_Witness ==
    /\ call.op = "GetStopInfo"
    /\ call.ret = "plan-complete"
    /\ Len(m_completed_plan_stack) = 2
    /\ plans[m_completed_plan_stack[2]].private
    /\ call.ptr = m_completed_plan_stack[1]
    /\ CacheIsCurrent

\* C12: when no completed plan that is not private has succeeded,
\* GetStopInfo returns the cached StopInfo exactly when it is not null, is
\* valid and was cached at the current stop id; in every other case, and so
\* whenever the process stop id has moved on since the StopInfo was cached,
\* it calls GetPrivateStopReason and returns what that returns.
C12_CacheOnlyIfCurrent ==
    [][ (call'.op = "GetStopInfo" /\ ~SomePlanSucceeded(call'.trace)) =>
           IF CacheIsCurrent
           THEN /\ call'.ret = StopInfoRet(m_actual_stop_info_sp)
                /\ ~Consulted(call'.trace, NULL, "GetPrivateStopReason")
           ELSE /\ call'.ret = StopInfoRet(private_stop_reason)
                /\ Consulted(call'.trace, NULL, "GetPrivateStopReason") ]_vars

\* GetStopInfo has recomputed the stop reason, which is empty, although a
\* valid StopInfo is cached: the process has stopped again since
C12_Witness ==
    /\ call.op = "GetStopInfo"
    /\ call.ret = "null"
    /\ m_actual_stop_info_sp # NoStopInfo
    /\ m_actual_stop_info_sp \in valid_stop_infos
    /\ m_thread_stop_reason_stop_id < process_stop_id
    /\ Consulted(call.trace, NULL, "GetPrivateStopReason")

\* lines 791-803
IsThreadPlanDone(plan) == plan \in Elems(m_completed_plan_stack)

\* lines 805-817
WasThreadPlanDiscarded(plan) == plan \in Elems(m_discarded_plan_stack)

\* the hooks WillResume runs on the StopInfo and on the plans
WillResumeHooks ==
    {"StopInfo::WillResume", "WillResume:top", "WillResume:lower"}

\* C13: WillResume clears the completed and the discarded plans first, before
\* it runs WillResume on the StopInfo or on any plan; when it returns,
\* IsThreadPlanDone and WasThreadPlanDiscarded are false for every plan and
\* GetCompletedPlan is null.
C13_HistoriesClearedFirst ==
    [][ call'.op = "WillResume" =>
           /\ Len(call'.trace) >= 3
           /\ call'.trace[1].call = "m_completed_plan_stack.clear"
           /\ call'.trace[2].call = "m_discarded_plan_stack.clear"
           /\ \A i \in 3 .. Len(call'.trace) :
                 call'.trace[i].call \in WillResumeHooks
           /\ \A p \in PlanIds :
                 ~IsThreadPlanDone(p)' /\ ~WasThreadPlanDiscarded(p)'
           /\ GetCompletedPlanC(Cfg)' = NULL ]_vars

\* WillResume has cleared a completed and a discarded plan and then run the
\* hook of the StopInfo and that of the top plan
C13_Witness ==
    /\ call.op = "WillResume"
    /\ Len(call.trace) = 4
    /\ call.trace[1].ans
    /\ call.trace[2].ans
    /\ call.trace[3].call = "StopInfo::WillResume"
    /\ m_completed_plan_stack = << >>
    /\ m_discarded_plan_stack = << >>

\* C15 as stated: when the top plan answers WillResume with false, the
\* cached StopInfo is empty when Thread::WillResume returns.
C15_AsStated ==
    [][ (call'.op = "WillResume" /\ call'.ret = "false") =>
           m_actual_stop_info_sp' = NoStopInfo ]_vars

\* C15, amended: the cached StopInfo is reset when the top plan answers
\* WillResume with true (the thread really resumes); when it answers false
\* (a fake resume) the cached StopInfo is left as it is.
C15_ResetOnRealResume ==
    [][ call'.op = "WillResume" =>
           IF call'.ret = "true"
           THEN m_actual_stop_info_sp' = NoStopInfo
           ELSE m_actual_stop_info_sp' = m_actual_stop_info_sp ]_vars

\* WillResume has returned false and a StopInfo is still cached
C15_Witness ==
    /\ call.op = "WillResume"
    /\ call.ret = "false"
    /\ m_actual_stop_info_sp # NoStopInfo

\* the calls WillResume has made on plans, in the order it made them
PlanWillResumes(tr) ==
    SelectSeq(tr, LAMBDA e : e.call \in {"WillResume:top", "WillResume:lower"})

\* C14: WillResume(state) calls WillResume(state, true) once on the top plan,
\* then WillResume(state, false) once on each plan below it, from the top
\* down to the base plan; it returns the answer of the top plan, sets the
\* temporary resume state to state and leaves the resume state alone.
C14_TopThenLower ==
    [][ call'.op = "WillResume" =>
           LET hooks == PlanWillResumes(call'.trace)
               n == Len(m_plan_stack)
           IN /\ Len(hooks) = n
              /\ hooks[1].call = "WillResume:top"
              /\ hooks[1].plan = m_plan_stack[n]
              /\ call'.ret = BoolRet(hooks[1].ans)
              /\ \A i \in 2 .. n :
                    /\ hooks[i].call = "WillResume:lower"
                    /\ hooks[i].plan = m_plan_stack[n + 1 - i]
              /\ m_temporary_resume_state' = call'.arg
              /\ m_resume_state' = m_resume_state ]_vars

\* WillResume(eStateSuspended) of a running thread with two plans above the
\* base plan has returned false
C14_Witness ==
    /\ call.op = "WillResume"
    /\ call.arg = eStateSuspended
    /\ call.ret = "false"
    /\ Len(m_plan_stack) = 3
    /\ Len(PlanWillResumes(call.trace)) = 3
    /\ m_temporary_resume_state = eStateSuspended
    /\ m_resume_state = eStateRunning

----------------------------------------------------------------------------
(* Properties of the pre-resume protocol of the plan machine *)

\* no two plans next to each other on the stack are step-over-breakpoint
\* plans
NoTwoStepOverBreakpoint(stack, pl) ==
    \A i \in 1 .. (Len(stack) - 1) :
        ~ (/\ pl[stack[i]].kind = eKindStepOverBreakpoint
           /\ pl[stack[i + 1]].kind = eKindStepOverBreakpoint)

\* C16: SetupForResume pushes one private StepOverBreakpoint plan, and
\* discards nothing, exactly when the resume state is not suspended, the
\* breakpoint site at the PC is enabled and the top plan is not a
\* StepOverBreakpoint plan; the new plan auto-continues exactly when the
\* plan that was on top does not answer eStateStepping to RunState.  In
\* every other case the three stacks are unchanged, so no two
\* StepOverBreakpoint plans come to lie on top of each other.
C16_StepOverBreakpointOnce ==
    [][ call'.op = "SetupForResume" =>
           LET top == Back(m_plan_stack)
               tr == call'.trace
           IN /\ m_completed_plan_stack' = m_completed_plan_stack
              /\ m_discarded_plan_stack' = m_discarded_plan_stack
              /\ IF /\ m_resume_state # eStateSuspended
                    /\ Asked(tr, NULL, "BreakpointSite::IsEnabled", TRUE)
                    /\ plans[top].kind # eKindStepOverBreakpoint
                 THEN /\ Len(m_plan_stack') = Len(m_plan_stack) + 1
                      /\ PopBack(m_plan_stack') = m_plan_stack
                      /\ plans[Back(m_plan_stack')] = NoPlan
                      /\ plans'[Back(m_plan_stack')] =
                            StepOverBreakpointFlags(
                               ~Asked(tr, top, "RunState:eStateStepping", TRUE))
                      /\ plans'[Back(m_plan_stack')].private
                      /\ Consulted(tr, top, "RunState:eStateStepping")
                 ELSE m_plan_stack' = m_plan_stack
              /\ (m_resume_state # eStateSuspended
                    <=> Consulted(tr, NULL, "BreakpointSite::IsEnabled"))
              /\ (NoTwoStepOverBreakpoint(m_plan_stack, plans)
                    => NoTwoStepOverBreakpoint(m_plan_stack', plans')) ]_vars

\* SetupForResume has left the stack alone at an enabled breakpoint site:
\* the top plan is the StepOverBreakpoint plan an earlier call pushed, which
\* does not auto-continue
C16_Witness ==
    /\ call.op = "SetupForResume"
    /\ Asked(call.trace, NULL, "BreakpointSite::IsEnabled", TRUE)
    /\ Len(call.trace) = 1
    /\ Len(m_plan_stack) = 3
    /\ plans[Back(m_plan_stack)] = StepOverBreakpointFlags(FALSE)

----------------------------------------------------------------------------
(* Properties of the vote machine *)

\* the thread is held back, or has not stopped for a reason
NoVote ==
    \/ m_resume_state \in {eStateSuspended, eStateInvalid}
    \/ m_temporary_resume_state \in {eStateSuspended, eStateInvalid}
    \/ ~ThreadStoppedForAReason

\* C17: ShouldReportStop returns eVoteNoOpinion, and asks no plan, when the
\* resume state or the temporary resume state is suspended or invalid or
\* the thread has no stop reason; otherwise it returns the vote of the last
\* completed plan, private or not, when there is a completed plan, and else
\* the vote of the top plan of the active stack.
C17_StopVoteDelegated ==
    [][ call'.op = "ShouldReportStop" =>
           IF NoVote
           THEN call'.ret = eVoteNoOpinion /\ call'.trace = << >>
           ELSE /\ Len(call'.trace) = 1
                /\ call'.trace[1].plan =
                      IF m_completed_plan_stack # << >>
                      THEN Back(m_completed_plan_stack)
                      ELSE Back(m_plan_stack)
                /\ call'.trace[1].call =
                      VoteCall("ShouldReportStop", call'.ret)
                /\ call'.ret \in Votes ]_vars

\* ShouldReportStop has returned the vote eVoteYes of the last completed
\* plan, which is private, while a completed plan that is not private and a
\* top plan were there to ask
C17_Witness ==
    /\ call.op = "ShouldReportStop"
    /\ call.ret = eVoteYes
    /\ Len(m_completed_plan_stack) = 2
    /\ plans[m_completed_plan_stack[2]].private
    /\ ~plans[m_completed_plan_stack[1]].private
    /\ call.trace[1].plan = m_completed_plan_stack[2]

\* C18 as stated: ShouldReportRun returns eVoteNoOpinion, and asks no plan,
\* when the resume state or the temporary resume state is suspended or
\* invalid or the thread has no stop reason.
C18_RunVoteShortCircuits ==
    [][ (call'.op = "ShouldReportRun" /\ NoVote) =>
           call'.ret = eVoteNoOpinion /\ call'.trace = << >> ]_vars

----------------------------------------------------------------------------
(* Properties of QueueThreadPlan and of teardown *)

\* the positions of the trace at which DidPush ran
DidPushes(tr) == { i \in 1 .. Len(tr) : tr[i].call = "DidPush" }

\* C19: QueueThreadPlan(plan, true) with a plan that is not null leaves the
\* active stack as the base plan and plan, every other plan that was active
\* being among the discarded plans; QueueThreadPlan(plan, false) adds plan
\* on top of the stack and leaves both histories alone.  Either way DidPush
\* runs once, on plan, when plan is the top of the active stack.
C19_QueueThenDidPush ==
    [][ (call'.op = "QueueThreadPlan" /\ call'.ptr # NULL) =>
           LET plan == call'.ptr
               tr == call'.trace
           IN /\ IF call'.flag
                 THEN /\ m_plan_stack' = << m_plan_stack[1], plan >>
                      /\ \A i \in 2 .. Len(m_plan_stack) :
                            m_plan_stack[i] \in Elems(m_discarded_plan_stack')
                      /\ Len(m_discarded_plan_stack') =
                            Len(m_discarded_plan_stack) + Len(m_plan_stack) - 1
                 ELSE /\ m_plan_stack' = Append(m_plan_stack, plan)
                      /\ m_completed_plan_stack' = m_completed_plan_stack
                      /\ m_discarded_plan_stack' = m_discarded_plan_stack
              /\ \E i \in 1 .. Len(tr) :
                    /\ DidPushes(tr) = {i}
                    /\ tr[i] = Event(plan, "DidPush", TRUE) ]_vars

\* QueueThreadPlan(plan, true) has discarded the plan that was above the
\* base plan and has run DidPush on the new plan
C19_Witness ==
    /\ call.op = "QueueThreadPlan"
    /\ call.flag
    /\ call.ptr # NULL
    /\ m_plan_stack = << BasePlan, call.ptr >>
    /\ Len(m_discarded_plan_stack) = 1
    /\ Asked(call.trace, call.ptr, "DidPush", TRUE)

\* C20: DestroyThread empties the active stack and both histories, resets
\* the cached StopInfo and sets m_destroy_called; nothing else sets it, so
\* the assertion of the destructor fails exactly when the object is
\* destroyed without DestroyThread having been called.
C20_TeardownThenDestroy ==
    [][ /\ call'.op = "DestroyThread" =>
              /\ m_plan_stack' = << >>
              /\ m_completed_plan_stack' = << >>
              /\ m_discarded_plan_stack' = << >>
              /\ m_actual_stop_info_sp' = NoStopInfo
              /\ m_destroy_called'
        /\ call'.op # "DestroyThread" => m_destroy_called' = m_destroy_called
        /\ call'.op = "~Thread" =>
              /\ (call'.ret = "assertion failed") <=> ~m_destroy_called
              /\ (call'.ret = "void") <=> m_plan_stack = << >> ]_vars

\* the object has been destroyed without teardown, with a plan above the
\* base plan and a StopInfo cached: the assertion has failed
C20_Witness ==
    /\ call.op = "~Thread"
    /\ call.ret = "assertion failed"
    /\ Len(m_plan_stack) = 2
    /\ m_actual_stop_info_sp # NoStopInfo

----------------------------------------------------------------------------
(* Properties of the entry-point machine *)

\* the plan the call has built fails ValidatePlan
BuiltPlanIsInvalid(cl) ==
    \/ cl.arg = ValidityOfBuiltPlan(FALSE)
    \/ \E i \in 1 .. Len(cl.trace) :
          cl.trace[i].call = "ValidatePlan" /\ ~cl.trace[i].ans

\* C21 as stated: every QueueThreadPlanFor* entry point returns a null plan
\* pointer and leaves the three stacks as they were when the plan it has
\* built fails ValidatePlan.
C21_NoEntryPointQueuesInvalid ==
    [][ ( /\ call'.op \in UnvalidatedEntryPoints
                            \cup {"QueueThreadPlanForStepOut",
                                  "QueueThreadPlanForStepThrough"}
          /\ BuiltPlanIsInvalid(call') ) =>
           /\ call'.retp = NULL
           /\ UNCHANGED stackVars ]_vars

----------------------------------------------------------------------------
(* Properties of the stop decision of the plan machine *)

\* the positions of the trace at which question `name` was put to plan p
AskedAt(tr, p, name) ==
    { i \in 1 .. Len(tr) : tr[i].plan = p /\ tr[i].call = name }

\* C22: when the StopInfo answers ShouldStopSynchronous with false,
\* Thread::ShouldStop returns false at once: no plan is asked
\* PlanExplainsStop, ShouldStop or ShouldAutoContinue, and the three stacks
\* are as they were.
C22_SynchronousNoStop ==
    [][ ( /\ call'.op = "ShouldStop"
          /\ Asked(call'.trace, NULL, "StopInfo::ShouldStopSynchronous",
                   FALSE) ) =>
           /\ call'.ret = "false"
           /\ \A i \in 1 .. Len(call'.trace) :
                 call'.trace[i].call \notin StopQuestions
           /\ Back(call'.trace).call = "StopInfo::ShouldStopSynchronous"
           /\ UNCHANGED stackVars ]_vars

\* ShouldStop has returned false on the word of the StopInfo, with two
\* plans above the base plan that were not asked anything
C22_Witness ==
    /\ call.op = "ShouldStop"
    /\ call.ret = "false"
    /\ Len(m_plan_stack) = 3
    /\ Len(call.trace) = 2
    /\ call.trace[2] = Event(NULL, "StopInfo::ShouldStopSynchronous", FALSE)

\* C23: when the top plan does not explain the stop and its tracer does,
\* Thread::ShouldStop returns false and unwinds nothing: the question to
\* the tracer is the last step of the call, no plan below the top is asked
\* anything, no plan is asked ShouldStop, and the three stacks are as they
\* were.
C23_TracerSuppressesStop ==
    [][ ( /\ call'.op = "ShouldStop"
          /\ Asked(call'.trace, Back(m_plan_stack), "PlanExplainsStop", FALSE)
          /\ Asked(call'.trace, Back(m_plan_stack), "TracerExplainsStop",
                   TRUE) ) =>
           /\ call'.ret = "false"
           /\ Back(call'.trace) =
                 Event(Back(m_plan_stack), "TracerExplainsStop", TRUE)
           /\ \A i \in 1 .. Len(call'.trace) :
                 /\ call'.trace[i].plan \in {Back(m_plan_stack), NULL}
                 /\ call'.trace[i].call \notin
                       {"ShouldStop", "WillPop", "WillStop", "MischiefManaged"}
           /\ UNCHANGED stackVars ]_vars

\* ShouldStop has returned false on the word of the tracer of the top plan,
\* with a plan and the base plan below the top plan
C23_Witness ==
    /\ call.op = "ShouldStop"
    /\ call.ret = "false"
    /\ Len(m_plan_stack) = 3
    /\ Len(call.trace) = 4
    /\ Back(call.trace) = Event(Back(m_plan_stack), "TracerExplainsStop", TRUE)
    /\ Asked(call.trace, Back(m_plan_stack), "PlanExplainsStop", FALSE)

\* the stop is explained by the plan at position k of the stack, below the
\* top plan: the top plan and its tracer do not explain it, nor does a plan
\* between the top and k, and the plan at k, asked ShouldStop, answers
\* MischiefManaged with `done`
ExplainedBelowTop(tr, stack, k, done) ==
    /\ k < Len(stack)
    /\ Asked(tr, Back(stack), "PlanExplainsStop", FALSE)
    /\ Asked(tr, Back(stack), "TracerExplainsStop", FALSE)
    /\ \A j \in (k + 1) .. (Len(stack) - 1) :
          Asked(tr, stack[j], "PlanExplainsStop", FALSE)
    /\ Asked(tr, stack[k], "PlanExplainsStop", TRUE)
    /\ Consulted(tr, stack[k], "ShouldStop")
    /\ Asked(tr, stack[k], "MischiefManaged", done)

\* the plans of the stack from the top down to position k, top-most first
FromTopDownTo(stack, k) ==
    [i \in 1 .. (Len(stack) - k + 1) |-> stack[Len(stack) + 1 - i]]

\* C24: when neither the top plan nor its tracer explains the stop and the
\* first plan E below the top that explains it is asked ShouldStop and then
\* answers MischiefManaged with true, the plans from the top down to E are
\* taken off the active stack and appended to the completed plans, top-most
\* first, none of them going to the discarded plans; the plan that was
\* directly below E is then the top plan, the one the call turns to next.
C24_UnwindThroughExplainer ==
    [][ call'.op = "ShouldStop" =>
           \A k \in 2 .. (Len(m_plan_stack) - 1) :
              ExplainedBelowTop(call'.trace, m_plan_stack, k, TRUE) =>
                 LET removed == FromTopDownTo(m_plan_stack, k)
                     E == m_plan_stack[k]
                     tr == call'.trace
                     popped == CHOOSE i \in 1 .. Len(tr) :
                                  tr[i].plan = E /\ tr[i].call = "WillPop"
                 IN /\ Len(m_completed_plan_stack') >=
                          Len(m_completed_plan_stack) + Len(removed)
                    /\ SubSeq(m_completed_plan_stack', 1,
                              Len(m_completed_plan_stack) + Len(removed)) =
                          m_completed_plan_stack \o removed
                    /\ Elems(removed) \cap Elems(m_discarded_plan_stack') = {}
                    /\ Elems(removed) \cap Elems(m_plan_stack') = {}
                    /\ Len(m_plan_stack') <= k - 1
                    /\ m_plan_stack' = SubSeq(m_plan_stack, 1, Len(m_plan_stack'))
                    /\ Consulted(tr, E, "WillPop")
                    /\ popped < Len(tr) =>
                          tr[popped + 1].plan = m_plan_stack[k - 1] ]_vars

\* ShouldStop has popped the top plan and the plan below it, which explained
\* the stop and was done, and has gone on to ask the base plan
C24_Witness ==
    /\ call.op = "ShouldStop"
    /\ m_plan_stack = << BasePlan >>
    /\ Len(m_completed_plan_stack) = 2
    /\ Asked(call.trace, m_completed_plan_stack[1], "TracerExplainsStop", FALSE)
    /\ Asked(call.trace, m_completed_plan_stack[2], "PlanExplainsStop", TRUE)
    /\ Asked(call.trace, m_completed_plan_stack[2], "MischiefManaged", TRUE)
    /\ Consulted(call.trace, BasePlan, "ShouldAutoContinue")

\* plan p was asked ShouldStop and the call has returned its answer
ReturnsVerdictOf(cl, p) ==
    \E b \in BOOLEAN : Asked(cl.trace, p, "ShouldStop", b) /\ cl.ret = BoolRet(b)

\* C25 as stated: when the plan E that explains the stop lies below the top,
\* is done, is a master plan and is not okay to discard, the plan on top
\* after the unwinding is asked ShouldAutoContinue and ShouldStop and
\* Thread::ShouldStop returns the verdict of that plan.
C25_AsStated ==
    [][ call'.op = "ShouldStop" =>
           \A k \in 2 .. (Len(m_plan_stack) - 1) :
              ( /\ ExplainedBelowTop(call'.trace, m_plan_stack, k, TRUE)
                /\ plans[m_plan_stack[k]].master
                /\ ~plans[m_plan_stack[k]].okay ) =>
                 /\ Consulted(call'.trace, m_plan_stack[k - 1],
                              "ShouldAutoContinue")
                 /\ ReturnsVerdictOf(call', m_plan_stack[k - 1]) ]_vars

\* C25, amended: when the plan E that explains the stop lies below the top
\* and is done, and E is a master plan that is not okay to discard, the
\* stop is resolved: the unwinding is the last step of the call, the plan
\* then on top is asked nothing and Thread::ShouldStop returns the answer E
\* gave to ShouldStop.  When E is not a master plan or is okay to discard,
\* the plan then on top is asked ShouldAutoContinue and ShouldStop; the call
\* returns false if it auto-continues, and the answer of that plan to
\* ShouldStop if it does not and the plan is the base plan.
C25_MasterExplainerDecides ==
    [][ call'.op = "ShouldStop" =>
           \A k \in 2 .. (Len(m_plan_stack) - 1) :
              ExplainedBelowTop(call'.trace, m_plan_stack, k, TRUE) =>
                 LET E == m_plan_stack[k]
                     below == m_plan_stack[k - 1]
                     tr == call'.trace
                 IN IF plans[E].master /\ ~plans[E].okay
                    THEN /\ ReturnsVerdictOf(call', E)
                         /\ Back(tr).plan = E /\ Back(tr).call = "WillPop"
                         /\ AskedAt(tr, below, "ShouldAutoContinue") = {}
                         /\ AskedAt(tr, below, "ShouldStop") = {}
                         /\ m_plan_stack' = SubSeq(m_plan_stack, 1, k - 1)
                    ELSE /\ Consulted(tr, below, "ShouldAutoContinue")
                         /\ Consulted(tr, below, "ShouldStop")
                         /\ Asked(tr, below, "ShouldAutoContinue", TRUE)
                               => call'.ret = "false"
                         /\ ( /\ Asked(tr, below, "ShouldAutoContinue", FALSE)
                              /\ k = 2 )
                               => ReturnsVerdictOf(call', below) ]_vars

\* ShouldStop has returned true, the answer of a master plan not okay to
\* discard that explained the stop from below the top plan and was done;
\* both plans were popped and the base plan was asked nothing
C25_Witness ==
    /\ call.op = "ShouldStop"
    /\ call.ret = "true"
    /\ m_plan_stack = << BasePlan >>
    /\ Len(m_completed_plan_stack) = 2
    /\ plans[m_completed_plan_stack[2]].master
    /\ ~plans[m_completed_plan_stack[2]].okay
    /\ Asked(call.trace, m_completed_plan_stack[1], "TracerExplainsStop", FALSE)
    /\ Asked(call.trace, m_completed_plan_stack[2], "ShouldStop", TRUE)
    /\ Asked(call.trace, m_completed_plan_stack[2], "MischiefManaged", TRUE)
    /\ AskedAt(call.trace, BasePlan, "ShouldAutoContinue") = {}

\* C26: when the plan E that explains the stop lies below the top and,
\* asked ShouldStop, answers MischiefManaged with false, Thread::ShouldStop
\* returns the answer E gave to ShouldStop and pops and discards nothing:
\* E's answer to MischiefManaged is the last step of the call and the three
\* stacks are as they were.
C26_UndoneExplainerDecides ==
    [][ call'.op = "ShouldStop" =>
           \A k \in 1 .. (Len(m_plan_stack) - 1) :
              ExplainedBelowTop(call'.trace, m_plan_stack, k, FALSE) =>
                 /\ ReturnsVerdictOf(call', m_plan_stack[k])
                 /\ Back(call'.trace) =
                       Event(m_plan_stack[k], "MischiefManaged", FALSE)
                 /\ \A i \in 1 .. Len(call'.trace) :
                       call'.trace[i].call \notin {"WillPop", "WillStop"}
                 /\ UNCHANGED stackVars ]_vars

\* ShouldStop has returned true, the answer of the plan between the top
\* plan and the base plan, which explained the stop and was not done
C26_Witness ==
    /\ call.op = "ShouldStop"
    /\ call.ret = "true"
    /\ Len(m_plan_stack) = 3
    /\ Asked(call.trace, m_plan_stack[3], "TracerExplainsStop", FALSE)
    /\ Asked(call.trace, m_plan_stack[2], "PlanExplainsStop", TRUE)
    /\ Asked(call.trace, m_plan_stack[2], "ShouldStop", TRUE)
    /\ Asked(call.trace, m_plan_stack[2], "MischiefManaged", FALSE)

\* the plan at position k of the stack, above the base plan, is asked
\* ShouldStop by the loop of lines 525-562, not as the plan that explains
\* the stop from below the top
AskedInTopLoop(tr, stack, k) ==
    /\ k >= 2
    /\ Consulted(tr, stack[k], "ShouldStop")
    /\ \A done \in BOOLEAN : ~ExplainedBelowTop(tr, stack, k, done)

\* C27 as stated: in the loop over the top plans, a plan above the base plan
\* that answers ShouldStop with true and MischiefManaged with true, is a
\* master plan and is not okay to discard, stays on the active stack and
\* goes to neither history; the loop ends there: the plan below it is not
\* asked ShouldStop.
C27_MasterPlanStaysOnStack ==
    [][ call'.op = "ShouldStop" =>
           \A k \in 2 .. Len(m_plan_stack) :
              ( /\ AskedInTopLoop(call'.trace, m_plan_stack, k)
                /\ Asked(call'.trace, m_plan_stack[k], "ShouldStop", TRUE)
                /\ Asked(call'.trace, m_plan_stack[k], "MischiefManaged", TRUE)
                /\ plans[m_plan_stack[k]].master
                /\ ~plans[m_plan_stack[k]].okay ) =>
                 /\ m_plan_stack[k] \in Elems(m_plan_stack')
                 /\ m_plan_stack[k] \notin Elems(m_completed_plan_stack')
                 /\ m_plan_stack[k] \notin Elems(m_discarded_plan_stack')
                 /\ AskedAt(call'.trace, m_plan_stack[k - 1], "ShouldStop")
                       = {} ]_vars

\* C28: when the stop is left to the plan on top (no plan below explained
\* it and was not forwarded, no tracer explained it) and that plan answers
\* ShouldAutoContinue with true, Thread::ShouldStop returns false whatever
\* the plans answer to ShouldStop, and the sweep of stale plans does not
\* run: no plan is asked IsPlanStale and the discarded plans are as they
\* were.
C28_AutoContinueOverrides ==
    [][ ( /\ call'.op = "ShouldStop"
          /\ \E p \in PlanIds :
                Asked(call'.trace, p, "ShouldAutoContinue", TRUE) ) =>
           /\ call'.ret = "false"
           /\ \A i \in 1 .. Len(call'.trace) :
                 call'.trace[i].call # "IsPlanStale"
           /\ m_discarded_plan_stack' = m_discarded_plan_stack ]_vars

\* ShouldStop has returned false because the top plan auto-continues,
\* although the plan below it, not done, answered ShouldStop with true
C28_Witness ==
    /\ call.op = "ShouldStop"
    /\ call.ret = "false"
    /\ Len(m_plan_stack) = 2
    /\ Len(m_completed_plan_stack) = 1
    /\ Asked(call.trace, m_completed_plan_stack[1], "ShouldAutoContinue", TRUE)
    /\ Asked(call.trace, m_completed_plan_stack[1], "MischiefManaged", TRUE)
    /\ Asked(call.trace, m_plan_stack[2], "ShouldStop", TRUE)
    /\ Asked(call.trace, m_plan_stack[2], "MischiefManaged", FALSE)

\* the sweep of stale plans has been applied by the call with trace tr that
\* left `stack` and `discarded`: every plan left above the base plan has
\* answered IsPlanStale with false, every plan that answered true and every
\* plan asked before it (the plans above it) is among the discarded plans,
\* and what is left of `before` is what lay below the plans asked
SweepApplied(tr, before, stack, discarded) ==
    /\ \A k \in 2 .. Len(stack) : Asked(tr, stack[k], "IsPlanStale", FALSE)
    /\ \A i \in 1 .. Len(tr) :
          (tr[i].call = "IsPlanStale" /\ tr[i].ans) =>
             \A j \in 1 .. i :
                tr[j].call = "IsPlanStale" => tr[j].plan \in Elems(discarded)
    /\ Len(stack) <= Len(before)
    /\ stack = SubSeq(before, 1, Len(stack))

\* C29 as stated: whenever Thread::ShouldStop returns true the sweep of
\* stale plans has been applied: no plan left above the base plan reports
\* IsPlanStale, every stale plan and every plan above one is among the
\* discarded plans, and the plans below the lowest stale plan are untouched.
C29_SweptWheneverStop ==
    [][ (call'.op = "ShouldStop" /\ call'.ret = "true") =>
           SweepApplied(call'.trace, m_plan_stack, m_plan_stack',
                        m_discarded_plan_stack') ]_vars

\* what the code keeps of it: the sweep is applied when ShouldStop returns
\* true after the plan on top was asked ShouldAutoContinue
SweptWhenLeftToTop ==
    [][ ( /\ call'.op = "ShouldStop"
          /\ call'.ret = "true"
          /\ \E p \in PlanIds :
                Consulted(call'.trace, p, "ShouldAutoContinue") ) =>
           SweepApplied(call'.trace, m_plan_stack, m_plan_stack',
                        m_discarded_plan_stack') ]_vars

\* the questions Thread::ShouldStop puts to plans
PlanQuestions ==
    {"PlanExplainsStop", "TracerExplainsStop", "ShouldStop", "MischiefManaged",
     "ShouldAutoContinue", "IsPlanStale"}

\* the position of plan p on the stack
PositionOf(stack, p) == CHOOSE k \in 1 .. Len(stack) : stack[k] = p

\* from step `from` of the call on, no plan is asked a question after a
\* plan below it was asked one
AskedTopDown(tr, stack, from) ==
    \A i, j \in from .. Len(tr) :
        ( /\ i < j
          /\ tr[i].call \in PlanQuestions
          /\ tr[j].call \in PlanQuestions ) =>
           PositionOf(stack, tr[i].plan) >= PositionOf(stack, tr[j].plan)

\* a plan is asked ShouldStop only after every plan that was above it has
\* answered PlanExplainsStop with false or has been popped
VerdictOnlyBelowDecliners(tr, stack) ==
    \A i \in 1 .. Len(tr) :
        tr[i].call = "ShouldStop" =>
           \A k \in (PositionOf(stack, tr[i].plan) + 1) .. Len(stack) :
              \E j \in 1 .. (i - 1) :
                 \/ tr[j] = Event(stack[k], "PlanExplainsStop", FALSE)
                 \/ tr[j].plan = stack[k] /\ tr[j].call = "WillPop"

\* C30 as stated: within one ShouldStop call a plan is asked ShouldStop only
\* after every plan that was above it has declined to explain the stop or
\* has been popped, and the plans are consulted from the top down: no plan
\* is asked anything after a plan below it was.
C30_AsStated ==
    [][ call'.op = "ShouldStop" =>
           /\ VerdictOnlyBelowDecliners(call'.trace, m_plan_stack)
           /\ AskedTopDown(call'.trace, m_plan_stack, 1) ]_vars

\* C30, amended: a plan is asked ShouldStop only after every plan that was
\* above it has declined to explain the stop or has been popped, and no
\* plan is asked ShouldStop twice or after a plan below it was asked
\* ShouldStop.  When some plan explains the stop, no plan is asked anything
\* after a plan below it was; when none does, the call goes back to the top
\* plan after the scan has reached the base plan, and from its
\* ShouldAutoContinue on the plans are again asked from the top down.
C30_TopDownButForTheScan ==
    [][ call'.op = "ShouldStop" =>
           LET tr == call'.trace
               explained == \E i \in 1 .. Len(tr) :
                               tr[i].call = "PlanExplainsStop" /\ tr[i].ans
               verdicts == { i \in 1 .. Len(tr) : tr[i].call = "ShouldStop" }
               resumed == { i \in 1 .. Len(tr) :
                               tr[i].call = "ShouldAutoContinue" }
           IN /\ VerdictOnlyBelowDecliners(tr, m_plan_stack)
              /\ \A i, j \in verdicts :
                    i < j => PositionOf(m_plan_stack, tr[i].plan) >
                                PositionOf(m_plan_stack, tr[j].plan)
              /\ explained => AskedTopDown(tr, m_plan_stack, 1)
              /\ \A i \in resumed :
                    /\ AskedTopDown(tr, m_plan_stack, i)
                    /\ ~explained => tr[i].plan = Back(m_plan_stack) ]_vars

\* no plan of a stack of three has explained the stop; ShouldStop has gone
\* back to the top plan, which was done, and has asked the plan below it
C30_Witness ==
    /\ call.op = "ShouldStop"
    /\ Len(m_plan_stack) = 2
    /\ Len(m_completed_plan_stack) = 1
    /\ Asked(call.trace, BasePlan, "PlanExplainsStop", FALSE)
    /\ Asked(call.trace, m_plan_stack[2], "PlanExplainsStop", FALSE)
    /\ Asked(call.trace, m_completed_plan_stack[1], "TracerExplainsStop", FALSE)
    /\ Asked(call.trace, m_completed_plan_stack[1], "MischiefManaged", TRUE)
    /\ Consulted(call.trace, m_plan_stack[2], "ShouldStop")

----------------------------------------------------------------------------
(* C31: what takes a master plan that is not okay to discard off the stack *)

\* the master plans of `stack` that are not okay to discard and are no
\* longer on `after`
StickyMastersRemoved(stack, after) ==
    { k \in 2 .. Len(stack) :
        /\ plans[stack[k]].master
        /\ ~plans[stack[k]].okay
        /\ stack[k] \notin Elems(after) }

\* C31 as stated: across a Thread::ShouldStop call a master plan that is not
\* okay to discard leaves the active stack only if it has itself reported
\* MischiefManaged during the call, and the sweep of stale plans moves it to
\* the discarded plans on account of no other plan.
C31_AsStated ==
    [][ call'.op = "ShouldStop" =>
           \A k \in StickyMastersRemoved(m_plan_stack, m_plan_stack') :
              /\ Asked(call'.trace, m_plan_stack[k], "MischiefManaged", TRUE)
              /\ m_plan_stack[k] \notin Elems(m_discarded_plan_stack') ]_vars

\* C31, amended: across a Thread::ShouldStop call a master plan that is not
\* okay to discard leaves the active stack only if it has itself reported
\* MischiefManaged or IsPlanStale during the call, or a plan below it has
\* explained the stop and reported MischiefManaged, or a plan below it has
\* reported IsPlanStale.  In the first two cases it goes to the completed
\* plans, in the cases with IsPlanStale to the discarded plans.  No answer
\* of a plan above it takes it off the stack.
C31_RemovedFromBelowOrByItself ==
    [][ call'.op = "ShouldStop" =>
           \A k \in StickyMastersRemoved(m_plan_stack, m_plan_stack') :
              LET tr == call'.trace
                  p == m_plan_stack[k]
                  swept == \E j \in 1 .. k :
                              Asked(tr, m_plan_stack[j], "IsPlanStale", TRUE)
                  unwound == \E j \in 1 .. (k - 1) :
                      /\ Asked(tr, m_plan_stack[j], "PlanExplainsStop", TRUE)
                      /\ Asked(tr, m_plan_stack[j], "MischiefManaged", TRUE)
              IN /\ \/ p \in Elems(m_completed_plan_stack')
                    \/ p \in Elems(m_discarded_plan_stack')
                 /\ p \in Elems(m_completed_plan_stack') =>
                       Asked(tr, p, "MischiefManaged", TRUE) \/ unwound
                 /\ p \in Elems(m_discarded_plan_stack') => swept ]_vars

\* a master plan that is not okay to discard was on top of a plan that
\* explained the stop and was done: ShouldStop has popped both, and the
\* master plan was not asked MischiefManaged
C31_Witness ==
    /\ call.op = "ShouldStop"
    /\ call.ret \in {"true", "false"}
    /\ m_plan_stack = << BasePlan >>
    /\ Len(m_completed_plan_stack) = 2
    /\ plans[m_completed_plan_stack[1]].master
    /\ ~plans[m_completed_plan_stack[1]].okay
    /\ ~Consulted(call.trace, m_completed_plan_stack[1], "MischiefManaged")
    /\ Asked(call.trace, m_completed_plan_stack[2], "PlanExplainsStop", TRUE)
    /\ Asked(call.trace, m_completed_plan_stack[2], "MischiefManaged", TRUE)

----------------------------------------------------------------------------
(* C32: what DiscardThreadPlans(false) removes *)

\* the sequence s in reverse order
RECURSIVE Reverse(_)
Reverse(s) == IF s = << >> THEN << >> ELSE Reverse(Tail(s)) \o << Head(s) >>

\* the positions of `stack` that hold a master plan
MastersOf(stack) == { k \in 1 .. Len(stack) : plans[stack[k]].master }

\* C32: DiscardThreadPlans(false) removes no master plan that is not okay to
\* discard and no plan below the top-most such master plan; the plans it
\* removes are the top of the stack and go to the discarded plans in the
\* order they are removed, none to the completed plans; when it returns,
\* the top-most master plan left on the stack is not okay to discard.
C32_StopsAtStickyMaster ==
    [][ (call'.op = "DiscardThreadPlans" /\ ~call'.flag) =>
           LET before == m_plan_stack
               after == m_plan_stack'
               sticky == { k \in MastersOf(before) : ~plans[before[k]].okay }
           IN /\ Len(after) <= Len(before)
              /\ after = SubSeq(before, 1, Len(after))
              /\ \A k \in sticky : Len(after) >= k
              /\ m_discarded_plan_stack' =
                    m_discarded_plan_stack \o
                    Reverse(SubSeq(before, Len(after) + 1, Len(before)))
              /\ m_completed_plan_stack' = m_completed_plan_stack
              /\ (call'.ret # "diverges" /\ MastersOf(after) # {}) =>
                    ~plans[after[MaxOf(MastersOf(after))]].okay ]_vars

\* DiscardThreadPlans(false) has discarded a master plan that was okay to
\* discard and has stopped at the master plan below it, which is not
C32_Witness ==
    /\ call.op = "DiscardThreadPlans"
    /\ ~call.flag
    /\ call.ret = "void"
    /\ Len(m_plan_stack) = 2
    /\ plans[m_plan_stack[2]].master
    /\ ~plans[m_plan_stack[2]].okay
    /\ m_discarded_plan_stack # << >>
    /\ plans[Back(m_discarded_plan_stack)].master
    /\ Consulted(call.trace, Back(m_discarded_plan_stack), "WillPop")

----------------------------------------------------------------------------
(* C33: DiscardThreadPlans(false) returns *)

\* C33: DiscardThreadPlans(false) returns for every active stack and every
\* assignment of master / okay-to-discard flags to its plans, the base plan
\* included, and it returns with the stack as it was when the first master
\* plan from the top is not okay to discard.
C33_DiscardTerminates ==
    [][ (call'.op = "DiscardThreadPlans" /\ ~call'.flag) =>
           /\ call'.ret # "diverges"
           /\ ( /\ MastersOf(m_plan_stack) # {}
                /\ ~plans[m_plan_stack[MaxOf(MastersOf(m_plan_stack))]].okay )
              => m_plan_stack' = m_plan_stack ]_vars

----------------------------------------------------------------------------
(* C34: DiscardThreadPlansUpToPlan *)

\* C34: DiscardThreadPlansUpToPlan(target) with a null target moves every
\* plan above the base plan to the discarded plans; with a target on the
\* active stack above the base plan it moves the target and every plan above
\* it, and no other, to the discarded plans, top first, so that the plan
\* that was directly below the target is on top; with a target that is the
\* base plan or is not on the active stack it leaves the active stack and
\* both histories as they are.  The completed plans are never changed.
C34_DiscardsUpToAndIncluding ==
    [][ call'.op = "DiscardThreadPlansUpToPlan" =>
           LET before == m_plan_stack
               target == call'.ptr
               at == { k \in 2 .. Len(before) : before[k] = target }
               left == IF target = NULL THEN 1
                       ELSE IF at # {} THEN MinOf(at) - 1
                       ELSE Len(before)
           IN /\ m_plan_stack' = SubSeq(before, 1, left)
              /\ m_discarded_plan_stack' =
                    m_discarded_plan_stack \o
                    Reverse(SubSeq(before, left + 1, Len(before)))
              /\ m_completed_plan_stack' = m_completed_plan_stack ]_vars

\* DiscardThreadPlansUpToPlan has discarded its target and the plan that was
\* above it
C34_Witness ==
    /\ call.op = "DiscardThreadPlansUpToPlan"
    /\ call.ptr # NULL
    /\ m_plan_stack = << BasePlan >>
    /\ Len(m_discarded_plan_stack) = 2
    /\ Back(m_discarded_plan_stack) = call.ptr
    /\ call.trace = << Event(m_discarded_plan_stack[1], "WillPop", TRUE),
                      Event(call.ptr, "WillPop", TRUE) >>

----------------------------------------------------------------------------
(* C35: WillPop *)

\* the calls that take plans off the active stack
RemovingCalls ==
    {"PopPlan", "DiscardPlan", "DiscardThreadPlans",
     "DiscardThreadPlansUpToPlan", "ShouldStop"}

\* the steps of the call with trace tr at which plan p got WillPop
WillPops(tr, p) ==
    { i \in 1 .. Len(tr) : tr[i].call = "WillPop" /\ tr[i].plan = p }

\* C35: every plan that PopPlan, DiscardPlan, DiscardThreadPlans,
\* DiscardThreadPlansUpToPlan or Thread::ShouldStop takes off the active
\* stack gets WillPop exactly once in that call, while it is the top of the
\* active stack; a plan that stays on the active stack gets no WillPop.
C35_OneWillPopWhileOnTop ==
    [][ call'.op \in RemovingCalls =>
           \A p \in Elems(m_plan_stack) :
              LET pops == WillPops(call'.trace, p)
              IN /\ p \in Elems(m_plan_stack') => pops = {}
                 /\ p \notin Elems(m_plan_stack') =>
                       /\ Cardinality(pops) = 1
                       /\ \A i \in pops : call'.trace[i].ans ]_vars

\* Thread::ShouldStop has popped two plans, the upper one first, and each
\* has got its WillPop
C35_Witness ==
    /\ call.op = "ShouldStop"
    /\ m_plan_stack = << BasePlan >>
    /\ Len(m_completed_plan_stack) = 2
    /\ \E i, j \in 1 .. Len(call.trace) :
          /\ i < j
          /\ call.trace[i] = Event(m_completed_plan_stack[1], "WillPop", TRUE)
          /\ call.trace[j] = Event(m_completed_plan_stack[2], "WillPop", TRUE)

----------------------------------------------------------------------------
(* C36: GetPreviousPlan across the completed plans and the active stack *)

RECURSIVE PreviousPlans(_, _, _)
\* the plans GetPreviousPlan returns when it is applied to plan p, then to
\* what it returned, and so on, n times at most, until it returns null
PreviousPlans(c, p, n) ==
    LET prev == GetPreviousPlanC(c, p)
    IN IF n = 0 \/ prev = NULL THEN << >>
       ELSE << prev >> \o PreviousPlans(c, prev, n - 1)

\* C36: GetPreviousPlan of the first of the completed plans returns the top
\* of the active stack; the walk along GetPreviousPlan from any completed
\* plan X goes through the completed plans before X, latest first, then
\* through the active stack from its top to the base plan, and ends there
\* with null.
C36_CrossesIntoActiveStack ==
    [][ ( /\ call'.op = "GetPreviousPlan"
          /\ call'.ptr \in Elems(m_completed_plan_stack) ) =>
           LET X == call'.ptr
               k == PositionOf(m_completed_plan_stack, X)
               walk == PreviousPlans(Cfg, X, Len(m_completed_plan_stack)
                                               + Len(m_plan_stack) + 1)
           IN /\ k = 1 => call'.retp = Back(m_plan_stack)
              /\ walk = Reverse(SubSeq(m_completed_plan_stack, 1, k - 1))
                           \o Reverse(m_plan_stack)
              /\ call'.retp = Head(walk) ]_vars

\* GetPreviousPlan was asked for the first of the completed plans, with a
\* plan left above the base plan, and has returned that plan
C36_Witness ==
    /\ call.op = "GetPreviousPlan"
    /\ Len(m_completed_plan_stack) = 1
    /\ call.ptr = m_completed_plan_stack[1]
    /\ Len(m_plan_stack) = 2
    /\ call.retp = m_plan_stack[2]

----------------------------------------------------------------------------
(* C37: GetPreviousPlan is the plan directly below *)

\* C37: after a call that pops plans, GetPreviousPlan of every plan that is
\* on the active stack or was popped by the call is the plan that lay
\* directly below it on the active stack (for a popped plan: when it was
\* popped), and null for the base plan; when the call has popped several
\* plans, GetPreviousPlan of none of them is a plan that was above it.
C37_PreviousIsThePlanBelow ==
    [][ call'.op \in {"PopPlan", "ShouldStop"} =>
           LET after == [stack |-> m_plan_stack',
                         completed |-> m_completed_plan_stack',
                         discarded |-> m_discarded_plan_stack',
                         trace |-> << >>, hung |-> FALSE]
           IN \A k \in 1 .. Len(m_plan_stack) :
                 LET P == m_plan_stack[k]
                 IN ( \/ P \in Elems(m_plan_stack')
                      \/ P \in Elems(m_completed_plan_stack') ) =>
                       GetPreviousPlanC(after, P) =
                          IF k = 1 THEN NULL ELSE m_plan_stack[k - 1] ]_vars

----------------------------------------------------------------------------
(* C38: the return value object of a plan-complete StopInfo *)

\* C38: the plan-complete StopInfo that GetStopInfo builds for the completed
\* plan P carries the return value object of P itself (none when P has
\* none), never the return value object of another completed plan.
C38_CarriesOwnReturnValue ==
    [][ (call'.op = "GetStopInfo" /\ call'.ret = "plan-complete") =>
           /\ call'.ptr = MostRecentPublicCompleted
           /\ call'.retp \in {NULL, call'.ptr}
           /\ call'.retp = call'.ptr <=>
                 Asked(call'.trace, call'.ptr, "GetReturnValueObject", TRUE)
       ]_vars

----------------------------------------------------------------------------
(* C39: InvokeShouldStopHereCallback *)

\* the steps of the call with trace tr that are calls of a callback
CallbackCalls(tr) ==
    { i \in 1 .. Len(tr) : tr[i].call \notin {"GetPC", "GetDescription"} }

\* C39: InvokeShouldStopHereCallback returns null and calls nothing when no
\* callback is configured; when one is, it calls it exactly once, with the
\* owning plan, the flag set and the baton as they are then, and returns
\* the plan the callback returned, null or not; it leaves the callback, the
\* baton, the owner and the flags as they are; a policy just constructed
\* has the flags eNone.
C39_CallbackResultUnchanged ==
    [][ /\ call'.op = "ThreadPlanShouldStopHere" => m_flags' = eNone
        /\ call'.op = "InvokeShouldStopHereCallback" =>
              LET tr == call'.trace
              IN /\ UNCHANGED shouldStopHereVars
                 /\ m_callback = NullCallback =>
                       call'.retp = NULL /\ tr = << >>
                 /\ m_callback # NullCallback =>
                       /\ Cardinality(CallbackCalls(tr)) = 1
                       /\ tr[1] = Event(call'.retp,
                                        CallbackCall(m_callback, m_owner,
                                                     m_flags, m_baton),
                                        call'.retp # NULL) ]_vars

\* the callback, configured after construction and called with flags other
\* than eNone, has returned a plan and InvokeShouldStopHereCallback has
\* returned that plan
C39_Witness ==
    /\ call.op = "InvokeShouldStopHereCallback"
    /\ m_flags = eAvoidNoDebug
    /\ m_baton # NullBaton
    /\ call.retp \in ReturnPlans
    /\ call.trace # << >>
    /\ call.trace[1] = Event(call.retp,
                             CallbackCall(m_callback, m_owner, m_flags,
                                          m_baton), TRUE)

----------------------------------------------------------------------------
(* C40: Thread::ShouldStop returns *)

\* C40: Thread::ShouldStop returns for every active stack and every
\* combination of answers of the plans, the case included in which the plan
\* that explains the stop and reports MischiefManaged is the base plan.
C40_ShouldStopTerminates ==
    [][ call'.op = "ShouldStop" => call'.ret \in {"true", "false"} ]_vars

\* the calls of Thread::ShouldStop in which the base plan does not both
\* explain the stop below another plan and report MischiefManaged return
ShouldStopReturnsUnlessBaseIsDone ==
    [][ ( /\ call'.op = "ShouldStop"
          /\ ~ ( /\ Len(m_plan_stack) > 1
                 /\ Asked(call'.trace, BasePlan, "PlanExplainsStop", TRUE)
                 /\ Asked(call'.trace, BasePlan, "MischiefManaged", TRUE) ) )
        => call'.ret \in {"true", "false"} ]_vars

====
